---- MODULE Spec2Model ----
(***************************************************************************)
(* Header node (chainpoint/bitcoin-header-node): the header index, its     *)
(* custom-start ("fast sync") bootstrap, start-up reconciliation of the    *)
(* in-memory chain with the persisted index, and the locator.              *)
(*                                                                         *)
(* The persistent state is the indexer database (lib/headerindexer.js,     *)
(* lib/layout.js).  The in-memory state is the indexer object and the      *)
(* bcoin Chain it is attached to (memory: true, lib/headernode.js:53).     *)
(* Block headers are abstracted to a height and a branch: branch 0 is the  *)
(* chain the checkpoints and any configured start tip belong to, branch 1  *)
(* is one competing branch that forks off branch 0 above height forkAt.    *)
(***************************************************************************)
EXTENDS Integers, Naturals, Sequences, FiniteSets, TLC

\* Highest block height the peers ever announce.
MaxHeight == 6

Heights == 0..MaxHeight

\* The networks explored: one without checkpoints (regtest: lastCheckpoint 0) and one
\* whose last checkpoint lies two blocks above a retarget boundary (main, testnet).
Networks == {[lastCheckpoint |-> 0, retargetInterval |-> 2],
             [lastCheckpoint |-> 5, retargetInterval |-> 3]}

\* Highest last checkpoint and retarget interval of the networks on which the
\* indexer's methods are called directly.
MaxCheckpoint == 6
MaxInterval == 3

\* Longest network.checkpoints list explored.
MaxCheckpoints == 2

\* Highest height indexBlock and unindexBlock are called with directly.
MaxCallHeight == 3

\* Calls of resolveOrphan for one orphan that are counted; further calls leave the count.
MaxRounds == 3

\* Highest header a peer sends while the holders of the indexer's lock are followed
\* step by step.
MaxLockHeight == 3

\* Highest tip a locator is walked down from.
MaxLocatorTip == 40

\* Highest header a peer sends to a node whose getLocator is called with a start hash.
MaxStartHeight == 3

\* Number of sendSync calls made on the peer during one run of the node.
MaxSyncCalls == 2

\* Start heights a node may be configured with.
StartHeights == {2, 3, 4, 5}

\* consensus.ZERO_HASH, the prevBlock of the genesis header.
ZeroHash == -1

\* No start marker stored under layout.s / no indexer state stored under layout.R.
Absent == -1

VARIABLES
    \* ---- network parameters (shared bcoin Network object) ----
    lastCheckpoint,     \* network.lastCheckpoint
    retargetInterval,   \* network.pow.retargetInterval
    checkpoints,        \* chain.options.checkpoints, copied to indexer.checkpoints
    checkpointMap,      \* network.checkpointMap: height -> hash, Absent where unset
    checkpointList,     \* network.checkpoints: list of {hash, height}
    forkAt,             \* height of the last block common to both branches, Absent before a fork is seen
    \* ---- indexer database (persistent) ----
    records,            \* layout.b[height]: stored Header or ChainEntry
    hashIdx,            \* layout.h[height]: hash of the indexed block
    tipR,               \* layout.R: persisted indexer state height, Absent if never written
    startMarker,        \* layout.s: persisted custom start height, Absent if none
    \* ---- indexer object (in memory) ----
    startHeight,        \* indexer.startHeight (0 when unset)
    startTip,           \* indexer.startTip: <<prev, start>> entries, or <<>>
    stateHeight,        \* indexer.state.height
    \* ---- bcoin Chain (in memory) ----
    chainDb,            \* chain.db main chain: height -> entry
    chainSide,          \* chain.db entries stored off the main chain
    chainDbTip,         \* chain.db.state.tip, as an entry
    chainTip,           \* chain.tip, loaded from the db by chain.open()
    events,             \* connect/disconnect events emitted and not yet handled
    \* ---- control ----
    pc,                 \* position of the node: down, an open step, open
    cur,                \* the event whose handler has written its record but not yet the tip
    lastError,          \* the last error raised while constructing or opening
    crashed,            \* the process was once killed in the middle of its writes
    options,            \* the options the running process was constructed with
    lastFork,           \* fork height of the reorganisation the last chain.add made, else Absent
    \* ---- direct calls on the indexer ----
    ret,                \* what the last method called on the indexer returned or threw
    \* ---- the node's components ----
    openOrder,          \* components HeaderNode.open has opened in this process, in order
    closeOrder,         \* components HeaderNode.close has closed in this process, in order
    \* ---- chain db reset ----
    lastReset,          \* height and outcome of chain.db.reset if it was the last chain operation
    \* ---- delivery of headers ----
    batched,            \* a header of the competing branch was added while the indexer had events to handle
    deleted,            \* the record the last direct call of unindexBlock found at the height it deleted
    \* ---- pool: orphan resolution ----
    orphan,             \* height of the orphan header the chain holds, Absent if none
    rounds,             \* resolveOrphan calls made for it, counted up to MaxRounds
    request,            \* a getblocks for the orphan's root is with the peer
    \* ---- the indexer's lock ----
    lock,               \* indexer.lock: the method that holds it, "free" if none
    loc,                \* position of a getLocator call: idle, waiting for the lock, computing
    replayEntry,        \* the entry the loop of _initializeChain holds while the chain is rebuilt
    \* ---- the walk of _getLocator over the heights ----
    walk,               \* tip, end, height, step, hashes (by height) and whether the loop runs
    \* ---- the pool's peer and the sendSync calls on it ----
    peer,               \* peer.syncing, peer.blockTime and the locators sent to the peer
    sync,               \* position of each sendSync call on the peer
    emitted,            \* number of 'error' events the pool has emitted
    \* ---- open/closed flags ----
    opened,             \* node.opened: HeaderNode.open has been accepted and close has not
    dbLoaded            \* indexer.db.loaded: the index database handle is open

vars == <<lastCheckpoint, retargetInterval, checkpoints, checkpointMap, checkpointList, forkAt, records, hashIdx,
          tipR, startMarker, startHeight, startTip, stateHeight, chainDb, chainSide,
          chainDbTip, chainTip, events, pc, cur, lastError, crashed, options, lastFork, ret,
          openOrder, closeOrder, lastReset, batched, deleted,
          orphan, rounds, request, lock, loc, replayEntry, walk, peer, sync, emitted, opened, dbLoaded>>

netVars == <<lastCheckpoint, retargetInterval, checkpoints, checkpointMap, checkpointList>>
storeVars == <<records, hashIdx, tipR, startMarker>>
chainVars == <<chainDb, chainSide, chainDbTip, chainTip>>
idxVars == <<startHeight, startTip, stateHeight>>
callVars == <<ret>>
lifeVars == <<openOrder, closeOrder>>
resetVars == <<lastReset>>
histVars == <<batched, deleted>>
poolVars == <<orphan, rounds, request>>
lockVars == <<lock, loc, replayEntry>>
walkVars == <<walk>>
syncVars == <<peer, sync, emitted>>
handleVars == <<opened, dbLoaded>>

-----------------------------------------------------------------------------
(* Headers and chain entries *)

\* Hash of the header at height h on branch b.
Hash(h, b) == 2 * h + b

\* prevBlock of the header at height h on branch b, given the fork height f.
PrevHash(h, b, f) ==
    IF h = 0 THEN ZeroHash
    ELSE IF b = 1 /\ h - 1 > f THEN Hash(h - 1, 1)
    ELSE Hash(h - 1, 0)

NoEntry == [kind |-> "none", hash |-> ZeroHash, prevBlock |-> ZeroHash, height |-> -1, chainwork |-> -1]

\* A ChainEntry: header fields plus height and cumulative chainwork.
MkEntry(hash, prevBlock, height, chainwork) ==
    [kind |-> "entry", hash |-> hash, prevBlock |-> prevBlock, height |-> height, chainwork |-> chainwork]

\* The entry of block (h, b) with the chainwork w.
BlockEntry(h, b, f, w) == MkEntry(Hash(h, b), PrevHash(h, b, f), h, w)

\* network.genesis: the hard-coded genesis entry every chain db starts from.
Genesis == BlockEntry(0, 0, Absent, 1)

\* Headers.fromEntry(entry).toRaw(): the 80 header bytes; height and chainwork are dropped.
HeaderOf(e) == [kind |-> "header", hash |-> e.hash, prevBlock |-> e.prevBlock, height |-> -1, chainwork |-> -1]

-----------------------------------------------------------------------------
(* Historical point *)

\* getHistoricalPoint without the step back to the retarget boundary.
getHistoricalPointAtCheckpoint == lastCheckpoint

getHistoricalPoint ==
    IF lastCheckpoint # 0 THEN lastCheckpoint - (lastCheckpoint % retargetInterval) ELSE 0

\* isHistorical with the historical point itself excluded (height < historicalPoint).
isHistoricalBelowPoint(height) ==
    IF checkpoints THEN height < getHistoricalPoint ELSE FALSE

isHistorical(height) ==
    IF checkpoints THEN height <= getHistoricalPoint ELSE FALSE

-----------------------------------------------------------------------------
(* Reading the index *)

\* A record that cannot be decoded as the variant the reader expects.
DecodeError == [kind |-> "error", hash |-> ZeroHash, prevBlock |-> ZeroHash, height |-> -1, chainwork |-> -1]

\* Headers.fromRaw(data): the first 80 bytes of either variant.
HeadersFromRaw(data) == HeaderOf(data)

\* ChainEntry.fromRaw(data): needs the height and chainwork bytes after the header.
ChainEntryFromRaw(data) == IF data.kind = "entry" THEN data ELSE DecodeError

\* getHeader that decodes every record as a ChainEntry.
getHeaderInAsEntry(recs, height) ==
    LET data == recs[height] IN
    IF data.kind = "none" THEN NoEntry ELSE ChainEntryFromRaw(data)

\* getHeader(height) on the store recs: NoEntry stands for null.
getHeaderIn(recs, height) ==
    LET data == recs[height] IN
    IF data.kind = "none" THEN NoEntry
    ELSE IF isHistorical(height) THEN HeadersFromRaw(data)
    ELSE ChainEntryFromRaw(data)

getHeader(height) == getHeaderIn(records, height)

\* getEntry that returns what getHeader returns, without rebuilding an entry.
getEntryInNoRebuild(recs, height) == getHeaderIn(recs, height)

\* getEntry(height): a bare header is rebuilt as an entry with its height and chainwork 0.
getEntryIn(recs, height) ==
    LET header == getHeaderIn(recs, height) IN
    IF header.kind = "none" THEN NoEntry
    ELSE IF header.kind = "header" THEN MkEntry(header.hash, header.prevBlock, height, 0)
    ELSE header

getEntry(height) == getEntryIn(records, height)

\* getHash(height): the hash index written with the tip.
getHash(height) == IF height < 0 THEN ZeroHash ELSE hashIdx[height]

-----------------------------------------------------------------------------
(* Writing the index *)

\* indexBlock that keys the record by the height below the entry's.
indexBlockKeyedBelow(recs, entry) ==
    LET key == IF entry.height > 0 THEN entry.height - 1 ELSE 0 IN
    IF isHistorical(entry.height)
    THEN [recs EXCEPT ![key] = HeaderOf(entry)]
    ELSE [recs EXCEPT ![key] = entry]

\* indexBlock that stores the bare header at every height.
indexBlockHeaderOnly(recs, entry) == [recs EXCEPT ![entry.height] = HeaderOf(entry)]

\* indexBlock(entry): the record stored at entry.height.
indexBlock(recs, entry) ==
    IF isHistorical(entry.height)
    THEN [recs EXCEPT ![entry.height] = HeaderOf(entry)]
    ELSE [recs EXCEPT ![entry.height] = entry]

\* unindexBlock that deletes the record below the entry's height.
unindexBlockKeyedBelow(recs, entry) ==
    [recs EXCEPT ![IF entry.height > 0 THEN entry.height - 1 ELSE 0] = NoEntry]

\* unindexBlock that deletes the record only when it is the entry's own.
unindexBlockByHash(recs, entry) ==
    IF recs[entry.height].hash = entry.hash THEN [recs EXCEPT ![entry.height] = NoEntry] ELSE recs

\* unindexBlock that writes an empty batch: the record stays.
unindexBlockKeepsRecord(recs, entry) == recs

\* unindexBlock(entry): delete the record at entry.height.
unindexBlock(recs, entry) == [recs EXCEPT ![entry.height] = NoEntry]

\* Indexer.setTip(tip), hash index part: hashes above the new tip are deleted,
\* the tip's hash is written.  cur is indexer.state.height before the call.
setTipHashes(idx, curHeight, tip) ==
    [h \in Heights |->
        IF h = tip.height THEN tip.hash
        ELSE IF h > tip.height /\ h <= curHeight THEN ZeroHash
        ELSE idx[h]]

\* Indexer.setTip(tip), state part: the new indexer.state.height.
\* -2 stands for the failed assertion 'Bad chain sync.'
setTipHeight(curHeight, tip) ==
    IF tip.height < curHeight THEN tip.height
    ELSE IF tip.height > curHeight
         THEN (IF tip.height = curHeight + 1 THEN curHeight + 1 ELSE -2)
    ELSE curHeight

-----------------------------------------------------------------------------
(* Start-height validation *)

NoError == [kind |-> "none", retarget |-> FALSE, nums |-> {}]

\* assert(height < lastCheckpoint, `... less than last checkpoint ${lastCheckpoint}`)
CheckpointError == [kind |-> "not_historical", retarget |-> FALSE, nums |-> {lastCheckpoint}]

\* `Starting entry height ${h} is too high. Must be no higher than the lastCheckpoint
\* (${lastCheckpoint}) and before a retargetting interval. Recommended max start height: ${maxStart}`
TooHighError(h) == [kind |-> "too_high", retarget |-> TRUE, nums |-> {h, lastCheckpoint, getHistoricalPoint}]

\* 'Can only get starting block data for mainnet or testnet ...' / a failed explorer request.
RemoteError == [kind |-> "remote", retarget |-> FALSE, nums |-> {}]

\* 'Cannot retroactively change start height. Current start height is ${s} ...'
RetroactiveError(s) == [kind |-> "retroactive", retarget |-> FALSE, nums |-> {s}]

\* assert(typeof height === 'number', 'Must pass a number as the start height to verify')
NotNumberError == [kind |-> "not_number", retarget |-> FALSE, nums |-> {}]

\* assert(height >= 0, 'Custom start height must be a positive integer')
NegativeError == [kind |-> "negative", retarget |-> FALSE, nums |-> {}]

\* validateStartHeight without the assertion on the last checkpoint.
validateStartHeightNoCheckpoint(height) ==
    IF height < 0 THEN "throw"
    ELSE IF isHistorical(height) THEN "valid" ELSE "invalid"

\* validateStartHeight(height): "throw" when an assertion fails, else the boolean it returns.
validateStartHeight(height) ==
    IF height < 0 THEN "throw"
    ELSE IF lastCheckpoint # 0 /\ ~(height < lastCheckpoint) THEN "throw"
    ELSE IF isHistorical(height) THEN "valid" ELSE "invalid"

\* The error of the assertion that fails in validateStartHeight(height).
validateStartHeightError(height) ==
    IF height < 0 THEN NegativeError ELSE CheckpointError

\* A start height that fails validation is left where it is.
moveToRetargetSkipped(height) == height

\* options.startHeight - (options.startHeight % retargetInterval)
moveToRetarget(height) == height - (height % retargetInterval)

\* The configurations a node may be constructed with: no custom start, a start
\* height, or a start tip (the raw entries at s-1 and s of branch 0).
NoConfig == [startHeight |-> 0, startTip |-> <<>>]

ConfigTip(s) == <<BlockEntry(s - 1, 0, Absent, s), BlockEntry(s, 0, Absent, s + 1)>>

Configs ==
    {NoConfig}
    \cup {[startHeight |-> s, startTip |-> <<>>] : s \in StartHeights}
    \cup {[startHeight |-> 0, startTip |-> ConfigTip(s)] : s \in StartHeights}

\* fromOptions(opts): [error, startHeight, startTip] of the constructed indexer.
fromOptions(opts) ==
    LET v1 == IF opts.startHeight # 0 THEN validateStartHeight(opts.startHeight) ELSE "valid"
        sh1 == IF opts.startHeight = 0 THEN 0
               ELSE IF v1 = "invalid"
                    THEN moveToRetarget(opts.startHeight)
                    ELSE opts.startHeight
        hasTip == opts.startTip # <<>>
        startEntry == IF hasTip THEN opts.startTip[2] ELSE NoEntry
        v2 == IF hasTip THEN validateStartHeight(startEntry.height) ELSE "valid"
    IN  IF v1 = "throw"
        THEN [error |-> validateStartHeightError(opts.startHeight), startHeight |-> 0, startTip |-> <<>>]
        ELSE IF v2 = "throw"
        THEN [error |-> validateStartHeightError(startEntry.height), startHeight |-> 0, startTip |-> <<>>]
        ELSE IF v2 = "invalid"
             THEN [error |-> TooHighError(startEntry.height), startHeight |-> 0, startTip |-> <<>>]
        ELSE [error |-> NoError,
              startHeight |-> IF hasTip THEN startEntry.height ELSE sh1,
              startTip |-> opts.startTip]

-----------------------------------------------------------------------------
(* The in-memory chain (bcoin Chain over a memory database) *)

NoEvent == [type |-> "none", entry |-> NoEntry]

\* A chain db holding the genesis entry only: the state of a new process.
GenesisDb == [h \in Heights |-> IF h = 0 THEN Genesis ELSE NoEntry]

\* addEntryToChain(entry): chain.db.reconnect puts the entry on the db's main chain
\* and makes it the db's tip; the Chain object itself is not updated.
addEntryToChain(db, entry) == [db EXCEPT ![entry.height] = entry]

\* addEntryToChain going through the chain, which emits connect for the entry.
addEntryEmitsConnect(entry) == <<[type |-> "connect", entry |-> entry]>>

\* The events the chain emits for addEntryToChain(entry): chain.db.reconnect is a
\* call on the chain's db, the Chain object emits nothing.
addEntryEmits(entry) == <<>>

\* Entries the chain db can find by hash.
KnownEntries == ({chainDb[h] : h \in Heights} \ {NoEntry}) \cup chainSide

IsKnown(hash) == \E e \in KnownEntries : e.hash = hash

EntryByHash(hash) == CHOOSE e \in KnownEntries : e.hash = hash

\* chain.isMainChain(entry)
isMainChain(entry) ==
    \/ entry.hash = chainTip.hash
    \/ (entry.height \in Heights /\ chainDb[entry.height].hash = entry.hash)

\* The entries of the branch ending in e that are not on the main chain, ascending.
RECURSIVE SidePath(_)
SidePath(e) ==
    IF isMainChain(e) \/ ~IsKnown(e.prevBlock) THEN <<>>
    ELSE Append(SidePath(EntryByHash(e.prevBlock)), e)

\* Heights a..b in descending order, as a sequence.
Descending(a, b) == [i \in 1..(IF a >= b THEN a - b + 1 ELSE 0) |-> a - i + 1]

-----------------------------------------------------------------------------
(* Initial state: an empty index directory and no process *)

\* Heights a checkpoint may be set at.
CheckpointHeights == 0..(MaxCheckpoint + 1)

\* network.checkpointMap = {}
EmptyCheckpointMap == [h \in CheckpointHeights |-> Absent]

\* The checkpoints a network ships with: its last checkpoint, a block of branch 0.
NetworkCheckpointMap(last) ==
    [h \in CheckpointHeights |-> IF last # 0 /\ h = last THEN Hash(h, 0) ELSE Absent]

NetworkCheckpoints(last) ==
    IF last # 0 THEN <<[hash |-> Hash(last, 0), height |-> last]>> ELSE <<>>

\* chain.db.reset was not the last operation on the chain.
NoReset == [height |-> Absent, outcome |-> "none"]

\* No method has been called on the indexer yet.
NoArg == [number |-> TRUE, value |-> 0]

NoCall == [op |-> "none", arg |-> NoArg, outcome |-> "none", value |-> 0, error |-> NoError]

\* A method returned value / threw error.
Returned(op, arg, value) == [op |-> op, arg |-> arg, outcome |-> "returned", value |-> value, error |-> NoError]
Threw(op, arg, error) == [op |-> op, arg |-> arg, outcome |-> "threw", value |-> 0, error |-> error]

\* The state of a new process on the network n at position p over an empty index directory.
\* A peer the pool has just connected to: peer.syncing = false, peer.blockTime = -1.
NoPeer == [syncing |-> FALSE, blockTime |-> -1, sent |-> 0]

\* No sendSync call has been made.
NoSync == [c \in 1..MaxSyncCalls |-> "idle"]

\* No locator has been asked for.
NoWalk == [tip |-> Absent, end |-> 0, height |-> 0, step |-> 1, hashes |-> <<>>, running |-> FALSE]

InitOn(nets, p) ==
    /\ \E n \in nets : /\ lastCheckpoint = n.lastCheckpoint
                       /\ retargetInterval = n.retargetInterval
                       /\ checkpointMap = NetworkCheckpointMap(n.lastCheckpoint)
                       /\ checkpointList = NetworkCheckpoints(n.lastCheckpoint)
    \* HeaderNode constructs its chain with checkpoints: true
    /\ checkpoints = TRUE
    /\ forkAt = Absent
    /\ records = [h \in Heights |-> NoEntry]
    /\ hashIdx = [h \in Heights |-> ZeroHash]
    /\ tipR = Absent
    /\ startMarker = Absent
    /\ startHeight = 0
    /\ startTip = <<>>
    /\ stateHeight = 0
    /\ chainDb = GenesisDb
    /\ chainSide = {}
    /\ chainDbTip = Genesis
    /\ chainTip = Genesis
    /\ events = <<>>
    /\ pc = p
    /\ cur = NoEvent
    /\ lastError = NoError
    /\ crashed = FALSE
    /\ options = NoConfig
    /\ lastFork = Absent
    /\ ret = NoCall
    /\ openOrder = <<>>
    /\ closeOrder = <<>>
    /\ lastReset = NoReset
    /\ batched = FALSE
    /\ deleted = NoEntry
    /\ orphan = Absent
    /\ rounds = 0
    /\ request = FALSE
    /\ lock = "free"
    /\ loc = "idle"
    /\ replayEntry = NoEntry
    /\ walk = NoWalk
    /\ peer = NoPeer
    /\ sync = NoSync
    /\ emitted = 0
    /\ opened = FALSE
    /\ dbLoaded = FALSE

Init == InitOn(Networks, "down")

\* The process ends: everything in memory is gone, the index database stays.
ProcessGone ==
    /\ startHeight' = 0
    /\ startTip' = <<>>
    /\ stateHeight' = 0
    /\ chainDb' = GenesisDb
    /\ chainSide' = {}
    /\ chainDbTip' = Genesis
    /\ chainTip' = Genesis
    /\ events' = <<>>
    /\ cur' = NoEvent
    /\ lastError' = NoError
    /\ options' = NoConfig
    /\ lastFork' = Absent
    /\ lastReset' = NoReset
    /\ batched' = FALSE
    /\ deleted' = NoEntry
    /\ orphan' = Absent
    /\ rounds' = 0
    /\ request' = FALSE
    /\ lock' = "free"
    /\ loc' = "idle"
    /\ replayEntry' = NoEntry
    /\ peer' = NoPeer
    /\ sync' = NoSync
    /\ emitted' = 0
    /\ opened' = FALSE
    /\ dbLoaded' = FALSE

\* open() rejected with error err: the node does not come up.
OpenFails(err) ==
    /\ lastError' = err
    /\ pc' = "failed"

-----------------------------------------------------------------------------
(* Node construction: new HeaderNode(options) -> new HeaderIndexer(options) *)

Construct(opts) ==
    /\ pc = "down"
    /\ LET r == fromOptions(opts) IN
       /\ lastError' = r.error
       /\ startHeight' = r.startHeight
       /\ startTip' = r.startTip
       /\ pc' = IF r.error.kind = "none" THEN "constructed" ELSE "failed"
    /\ options' = opts
    /\ openOrder' = <<>>
    /\ closeOrder' = <<>>
    /\ UNCHANGED <<netVars, walkVars, syncVars, handleVars, callVars, histVars, poolVars, lockVars, resetVars, forkAt, storeVars, stateHeight, chainVars, events, cur, crashed,
                   lastFork>>

-----------------------------------------------------------------------------
(* HeaderNode.open -> chain.open(), HeaderIndexer.open -> setStartTip *)

\* assert(startEntry, 'Could not find an entry in database for starting height ...')
StartTipMissingError == [kind |-> "start_missing", retarget |-> FALSE, nums |-> {startMarker}]

\* assert(entry.height > 0, 'Cannot pass Genesis block as custom start tip')
GenesisStartError == [kind |-> "genesis_start", retarget |-> FALSE, nums |-> {}]

\* assert.equal(entry.prevBlock, prev.hash, "Entry's prevBlock doesn't match previous block hash ...")
PrevMismatchError == [kind |-> "prev_mismatch", retarget |-> FALSE, nums |-> {}]

\* getStartTip(): the two entries stored for the start marker.
getStartTip ==
    IF startMarker = Absent THEN [status |-> "null", tip |-> <<>>]
    ELSE LET startEntry == getEntry(startMarker)
             prevEntry == IF startMarker - 1 \in Heights THEN getEntry(startMarker - 1) ELSE NoEntry
         IN  IF startEntry.kind # "entry" \/ prevEntry.kind # "entry"
             THEN [status |-> "throw", tip |-> <<>>]
             ELSE [status |-> "ok", tip |-> <<prevEntry, startEntry>>]

\* getRemoteBlockEntries(network, s - 1, s): entries built from the explorer's
\* block metadata, which carries no chainwork.
RemoteEntries(s) == <<BlockEntry(s - 1, 0, Absent, 0), BlockEntry(s, 0, Absent, 0)>>

\* assert(network === 'main' || network === 'testnet'): the explorer serves the
\* networks that ship checkpoints.
RemoteAvailable == lastCheckpoint # 0

\* A failed lookup that is only logged: the node goes on to sync from genesis.
LookupFailedLogged(plan) ==
    [plan EXCEPT !.error = RemoteError, !.startTip = <<>>, !.startHeight = 0]

\* The assert on the network type fails or getRemoteBlockEntries throws: nothing
\* catches it, _setStartTip and open() reject.
LookupFailed(plan) ==
    [plan EXCEPT !.next = "failed", !.error = RemoteError, !.startTip = <<>>]

\* _setStartTip up to its first write to the index: what it decides, the error it
\* raises or logs, and what it leaves in memory.  remoteOk: the explorer answers.
\*   next = "superopen": returned without writing; "st_marker": goes on to write
\*   the marker and the two entries; "failed": threw.
SetStartTipPlan(remoteOk) ==
    LET g == getStartTip
        found == g.status = "ok"
        mismatch == found /\ startHeight # 0 /\ g.tip[2].height # startHeight
        logged == IF mismatch THEN RetroactiveError(g.tip[2].height)
                  ELSE IF g.status = "throw" THEN StartTipMissingError
                  ELSE lastError
        needRemote == startHeight # 0 /\ startTip = <<>>
        tip == IF needRemote THEN RemoteEntries(startHeight) ELSE startTip
        base == [next |-> "superopen", error |-> logged, startHeight |-> startHeight,
                 startTip |-> tip, db |-> chainDb, dbTip |-> chainDbTip]
    IN  IF found /\ ~mismatch
        THEN [base EXCEPT !.startHeight = g.tip[2].height,
                          !.startTip = g.tip,
                          !.db = addEntryToChain(addEntryToChain(chainDb, g.tip[1]), g.tip[2]),
                          !.dbTip = g.tip[2]]
        ELSE IF needRemote /\ ~(remoteOk /\ RemoteAvailable)
        THEN LookupFailed(base)
        ELSE IF tip = <<>>
        THEN [base EXCEPT !.startHeight = 0]
        ELSE IF ~(tip[1].height > 0)
        THEN [base EXCEPT !.next = "failed", !.error = GenesisStartError]
        ELSE IF tipR # Absent /\ tipR > tip[1].height
        THEN base
        \* the first entry has been added to the chain db when the second is looked at
        ELSE IF ~(tip[2].height > 0)
        THEN [base EXCEPT !.next = "failed", !.error = GenesisStartError,
                          !.db = addEntryToChain(chainDb, tip[1]), !.dbTip = tip[1]]
        ELSE IF tip[2].prevBlock # tip[1].hash
        THEN [base EXCEPT !.next = "failed", !.error = PrevMismatchError,
                          !.db = addEntryToChain(chainDb, tip[1]), !.dbTip = tip[1]]
        ELSE IF tipR # Absent /\ tipR > tip[2].height
        THEN [base EXCEPT !.db = addEntryToChain(chainDb, tip[1]), !.dbTip = tip[1]]
        ELSE [base EXCEPT !.next = "st_marker",
                          !.db = addEntryToChain(addEntryToChain(chainDb, tip[1]), tip[2]),
                          !.dbTip = tip[2]]

\* HeaderNode.open: the components in the order it opens them.
OpenOrder == <<"chain", "headerindex", "pool", "plugins", "http">>

\* HeaderNode.close: the components in the order it closes them.
CloseOrder == <<"http", "plugins", "headerindex", "pool", "chain">>

\* chain.open() loads chain.tip from the db; then setStartTip runs up to its first write.
OpenSetStartTip ==
    /\ pc = "constructed"
    /\ ~opened
    /\ lock = "free"
    /\ \E remoteOk \in BOOLEAN :
         LET plan == SetStartTipPlan(remoteOk) IN
         /\ pc' = plan.next
         /\ lastError' = plan.error
         /\ startHeight' = plan.startHeight
         /\ startTip' = plan.startTip
         /\ chainDb' = plan.db
         /\ chainDbTip' = plan.dbTip
    /\ chainTip' = chainDbTip
    /\ openOrder' = SubSeq(OpenOrder, 1, 1)
    /\ closeOrder' = closeOrder
    /\ UNCHANGED <<netVars, walkVars, syncVars, callVars, histVars, poolVars, loc, replayEntry, resetVars, forkAt, storeVars, stateHeight, chainSide, events, cur, crashed, options, lastFork>>
    /\ lock' = (IF pc' = "st_marker" THEN "setStartTip" ELSE "free")
    /\ opened' = TRUE
    /\ dbLoaded' = (pc' = "st_marker")

\* this.state = new ChainState(); state.height = startHeight = entry.height;
\* db.put(layout.s, startHeight)
WriteStartMarker ==
    /\ pc = "st_marker"
    /\ stateHeight' = startTip[2].height
    /\ startHeight' = startTip[2].height
    /\ startMarker' = startTip[2].height
    /\ pc' = "st_prev"
    /\ UNCHANGED <<netVars, walkVars, syncVars, handleVars, callVars, histVars, poolVars, lockVars, lifeVars, resetVars, forkAt, records, hashIdx, tipR, startTip, chainVars, events, cur,
                   lastError, crashed, options, lastFork>>

\* if (!(await this.getHeader(prev.height))) await this.indexEntryBlock(prev): the record
StartIndexPrev ==
    /\ pc = "st_prev"
    /\ IF getHeader(startTip[1].height).kind = "none"
       THEN /\ records' = indexBlock(records, startTip[1])
            /\ pc' = "st_prev_tip"
       ELSE /\ records' = records
            /\ pc' = "st_entry"
    /\ UNCHANGED <<netVars, walkVars, syncVars, handleVars, callVars, histVars, poolVars, lockVars, lifeVars, resetVars, forkAt, hashIdx, tipR, startMarker, idxVars, chainVars, events, cur,
                   lastError, crashed, options, lastFork>>

\* 'Bad chain sync.'
BadChainSyncError == [kind |-> "bad_chain_sync", retarget |-> FALSE, nums |-> {}]

\* indexEntryBlock(entry), second half: setTip(BlockMeta.fromEntry(entry)).
\* next: where _setStartTip continues; reset: chain.close(); chain.open() follows.
StartSetTip(entry, next, reset) ==
    LET newHeight == setTipHeight(stateHeight, entry) IN
    IF newHeight = -2
    THEN /\ OpenFails(BadChainSyncError)
         /\ UNCHANGED <<hashIdx, tipR, stateHeight, chainTip>>
    ELSE /\ hashIdx' = setTipHashes(hashIdx, stateHeight, entry)
         /\ tipR' = newHeight
         /\ stateHeight' = newHeight
         /\ pc' = next
         /\ chainTip' = IF reset THEN chainDbTip ELSE chainTip
         /\ UNCHANGED lastError

StartSetTipPrev ==
    /\ pc = "st_prev_tip"
    /\ StartSetTip(startTip[1], "st_entry", FALSE)
    /\ UNCHANGED <<netVars, walkVars, syncVars, opened, callVars, histVars, poolVars, loc, replayEntry, lifeVars, resetVars, forkAt, records, startMarker, startHeight, startTip,
                   chainDb, chainSide, chainDbTip, events, cur, crashed, options, lastFork>>
    /\ lock' = (IF pc' = "failed" THEN "free" ELSE lock)
    /\ dbLoaded' = (pc' # "failed")

\* if (!(await this.getHeader(entry.height))) await this.indexEntryBlock(entry): the record;
\* when the entry is already stored, chain.close(); chain.open() follows at once.
StartIndexEntry ==
    /\ pc = "st_entry"
    /\ IF getHeader(startTip[2].height).kind = "none"
       THEN /\ records' = indexBlock(records, startTip[2])
            /\ pc' = "st_entry_tip"
            /\ chainTip' = chainTip
       ELSE /\ records' = records
            /\ pc' = "superopen"
            /\ chainTip' = chainDbTip
    /\ UNCHANGED <<netVars, walkVars, syncVars, opened, callVars, histVars, poolVars, loc, replayEntry, lifeVars, resetVars, forkAt, hashIdx, tipR, startMarker, idxVars,
                   chainDb, chainSide, chainDbTip, events, cur, lastError, crashed, options, lastFork>>
    /\ lock' = (IF pc' = "superopen" THEN "free" ELSE lock)
    /\ dbLoaded' = (pc' # "superopen")

StartSetTipEntry ==
    /\ pc = "st_entry_tip"
    /\ StartSetTip(startTip[2], "superopen", TRUE)
    /\ UNCHANGED <<netVars, walkVars, syncVars, opened, callVars, histVars, poolVars, loc, replayEntry, lifeVars, resetVars, forkAt, records, startMarker, startHeight, startTip,
                   chainDb, chainSide, chainDbTip, events, cur, crashed, options, lastFork>>
    /\ lock' = "free"
    /\ dbLoaded' = FALSE

-----------------------------------------------------------------------------
(* HeaderIndexer.open -> super.open(): the base indexer loads or creates its state *)

\* Indexer.open(): with a stored state R the state is loaded; an empty index is
\* initialised at the genesis block, which is indexed like any block.
SuperOpen ==
    /\ pc = "superopen"
    /\ IF tipR = Absent
       THEN /\ records' = indexBlock(records, Genesis)
            /\ hashIdx' = [hashIdx EXCEPT ![0] = Genesis.hash]
            /\ tipR' = 0
            /\ stateHeight' = 0
       ELSE /\ stateHeight' = tipR
            /\ UNCHANGED <<records, hashIdx, tipR>>
    /\ pc' = "initchain"
    /\ UNCHANGED <<netVars, walkVars, syncVars, opened, callVars, histVars, poolVars, lockVars, lifeVars, resetVars, forkAt, startMarker, startHeight, startTip, chainVars, events, cur,
                   lastError, crashed, options, lastFork>>
    /\ dbLoaded' = TRUE

-----------------------------------------------------------------------------
(* HeaderIndexer.open -> initializeChain *)

\* The replay of a historical tip begins no lower than height 1.
ReplayStartAboveGenesis ==
    IF isHistorical(tipR) THEN getEntry(IF startHeight > 1 THEN startHeight ELSE 1)
    ELSE IF lastCheckpoint = 0 THEN getEntry(1)
    ELSE getHeader(getHistoricalPoint + 1)

\* The entry _initializeChain starts the replay from.
ReplayStart ==
    IF isHistorical(tipR) THEN getEntry(startHeight)
    ELSE IF lastCheckpoint = 0 THEN getEntry(1)
    ELSE getHeader(getHistoricalPoint + 1)

\* while (entry && entry.height <= headersTip.height) { addEntryToChain(entry);
\* entry = getEntry(entry.height + 1) }: the chain db and its tip after the loop.
RECURSIVE Replay(_, _, _)
Replay(db, dbTip, entry) ==
    IF entry.kind = "entry" /\ entry.height <= tipR
    THEN LET r == Replay(addEntryToChain(db, entry), entry,
                         IF entry.height + 1 \in Heights THEN getEntry(entry.height + 1) ELSE NoEntry)
         IN  [r EXCEPT !.emitted = addEntryEmits(entry) \o r.emitted]
    ELSE [db |-> db, dbTip |-> dbTip, stoppedAt |-> entry, emitted |-> <<>>]

\* A stored record could not be decoded while the chain was rebuilt.
ReplayError == [kind |-> "replay", retarget |-> FALSE, nums |-> {}]

InitializeChain ==
    /\ pc = "initchain"
    /\ lock = "free"
    /\ IF tipR # Absent /\ chainDbTip.height < tipR
       THEN LET r == Replay(chainDb, chainDbTip, ReplayStart) IN
            IF r.stoppedAt.kind = "error"
            THEN /\ OpenFails(ReplayError)
                 /\ UNCHANGED <<chainVars, events>>
            ELSE /\ chainDb' = r.db
                 /\ chainDbTip' = r.dbTip
                 /\ chainTip' = r.dbTip
                 /\ events' = events \o r.emitted
                 /\ pc' = "open"
                 /\ UNCHANGED <<chainSide, lastError>>
       ELSE /\ pc' = "open"
            /\ UNCHANGED <<chainVars, events, lastError>>
    /\ UNCHANGED <<netVars, walkVars, syncVars, handleVars, callVars, histVars, poolVars, lockVars, resetVars, forkAt, storeVars, idxVars, cur, crashed, options, lastFork>>
    \* headerindex.open() returned: HeaderNode.open goes on to the pool, the plugins and http
    /\ openOrder' = IF pc' = "open" THEN OpenOrder ELSE openOrder
    /\ closeOrder' = closeOrder

-----------------------------------------------------------------------------
(* The chain accepts a header from a peer: chain.add *)

Connect(e) == [type |-> "connect", entry |-> e]
Disconnect(e) == [type |-> "disconnect", entry |-> e]

\* Height of the last main-chain entry below the branch that ends in prev.
ForkHeight(prev) ==
    LET path == SidePath(prev) IN
    IF path = <<>> THEN prev.height ELSE path[1].height - 1

\* chain.add(header) for the header at height h on branch b.  Peers answer the
\* locator, so every header they send is above the locator's floor.  The events
\* the chain emits join those the indexer has still to handle.
AddHeader(h, b) ==
    /\ pc = "open"
    /\ chainTip = chainDbTip
    /\ h > startHeight
    /\ b = 1 /\ forkAt # Absent => h > forkAt
    /\ LET f == IF b = 1 /\ forkAt = Absent THEN h - 1 ELSE forkAt
           hash == Hash(h, b)
           prevHash == PrevHash(h, b, f)
       IN
       /\ ~IsKnown(hash)
       /\ IsKnown(prevHash)
       \* verifyCheckpoint: the block at a checkpoint height must be the checkpoint
       /\ ~(checkpoints /\ lastCheckpoint # 0 /\ h = lastCheckpoint /\ b = 1)
       /\ forkAt' = IF b = 1 THEN f ELSE forkAt
       /\ LET prev == EntryByHash(prevHash)
              entry == MkEntry(hash, prevHash, h, prev.chainwork + 1)
              path == SidePath(prev)
              fork == ForkHeight(prev)
              branch == Append(path, entry)
          IN
          IF entry.chainwork <= chainTip.chainwork
          THEN \* saveAlternate
               /\ chainSide' = chainSide \cup {entry}
               /\ lastFork' = Absent
               /\ UNCHANGED <<chainDb, chainDbTip, chainTip, events>>
          ELSE IF prevHash = chainTip.hash
          THEN \* setBestChain on the tip
               /\ chainDb' = addEntryToChain(chainDb, entry)
               /\ chainDbTip' = entry
               /\ chainTip' = entry
               /\ events' = Append(events, Connect(entry))
               /\ lastFork' = Absent
               /\ UNCHANGED chainSide
          ELSE \* reorganize: disconnect down to the fork, then connect the new branch
               /\ \A x \in (fork + 1)..chainTip.height : chainDb[x].kind = "entry"
               /\ chainDb' = [x \in Heights |->
                                IF x <= fork THEN chainDb[x]
                                ELSE IF x <= h THEN branch[x - fork]
                                ELSE NoEntry]
               /\ chainSide' = (chainSide \ {path[i] : i \in 1..Len(path)})
                                  \cup {chainDb[x] : x \in (fork + 1)..chainTip.height}
               /\ chainDbTip' = entry
               /\ chainTip' = entry
               /\ lastFork' = fork
               /\ events' = events
                            \o [i \in 1..(chainTip.height - fork) |->
                                Disconnect(chainDb[chainTip.height - i + 1])]
                            \o [i \in 1..Len(branch) |-> Connect(branch[i])]
    /\ UNCHANGED <<netVars, walkVars, syncVars, handleVars, callVars, lockVars, lifeVars, storeVars, idxVars, pc, cur, lastError, crashed, options>>
    /\ lastReset' = NoReset
    /\ batched' = (batched \/ (b = 1 /\ (events # <<>> \/ cur # NoEvent)))
    /\ deleted' = deleted

\* chain.add(header) of a header whose parent the chain knows.
ChainAdd(h, b) ==
    /\ AddHeader(h, b)
    /\ UNCHANGED poolVars

\* A header arrives when the indexer has handled every event of the headers before it.
ReceiveHeader(h, b) ==
    /\ events = <<>>
    /\ cur = NoEvent
    /\ ChainAdd(h, b)

-----------------------------------------------------------------------------
(* The chain db is reset to a lower height: node.chain.db.reset(height) *)

\* chain.db.reset(h): 'Block not found.' when the db has no entry at h.  Otherwise
\* the alternate chains are removed and the main chain is taken down entry by
\* entry from the tip; when an entry's predecessor is missing from the db the
\* walk throws after that entry was removed.  The Chain object and the indexer
\* are not told.
ResetChain(h) ==
    /\ pc = "open"
    /\ events = <<>>
    /\ cur = NoEvent
    /\ chainTip = chainDbTip
    /\ h < chainDbTip.height
    /\ LET gaps == {y \in (h + 1)..chainDbTip.height : chainDb[y - 1].kind # "entry"} IN
       IF chainDb[h].kind # "entry"
       THEN /\ lastReset' = [height |-> h, outcome |-> "threw"]
            /\ UNCHANGED <<chainDb, chainSide, chainDbTip>>
       ELSE IF gaps = {}
       THEN /\ chainDb' = [x \in Heights |-> IF x <= h THEN chainDb[x] ELSE NoEntry]
            /\ chainDbTip' = chainDb[h]
            /\ chainSide' = {}
            /\ lastReset' = [height |-> h, outcome |-> "returned"]
       ELSE LET g == CHOOSE y \in gaps : \A z \in gaps : z <= y IN
            /\ chainDb' = [x \in Heights |-> IF x < g THEN chainDb[x] ELSE NoEntry]
            /\ chainDbTip' = NoEntry
            /\ chainSide' = {}
            /\ lastReset' = [height |-> h, outcome |-> "threw"]
    /\ lastFork' = Absent
    /\ UNCHANGED <<netVars, walkVars, syncVars, handleVars, callVars, histVars, poolVars, lockVars, lifeVars, forkAt, storeVars, idxVars, chainTip, events,
                   pc, cur, lastError, crashed, options>>

-----------------------------------------------------------------------------
(* The indexer handles the chain's events, one at a time and in order *)

\* _addBlock / _removeBlock, first half: indexBlock(entry) or unindexBlock(entry).
HandleIndex ==
    /\ pc = "open"
    /\ dbLoaded
    /\ lock = "free"
    /\ cur = NoEvent
    /\ events # <<>>
    /\ LET ev == Head(events) IN
       /\ records' = IF ev.type = "connect" THEN indexBlock(records, ev.entry)
                     ELSE unindexBlock(records, ev.entry)
       /\ cur' = ev
    /\ events' = Tail(events)
    /\ UNCHANGED <<netVars, walkVars, syncVars, handleVars, callVars, histVars, poolVars, loc, replayEntry, lifeVars, resetVars, forkAt, hashIdx, tipR, startMarker, idxVars, chainVars, pc,
                   lastError, crashed, options, lastFork>>
    /\ lock' = "event"

\* _addBlock / _removeBlock, second half: setTip(entry) after a connect,
\* setTip(the block below) after a disconnect.
HandleSetTip ==
    /\ pc = "open"
    /\ cur # NoEvent
    /\ LET tip == IF cur.type = "connect" THEN cur.entry
                  ELSE [height |-> cur.entry.height - 1, hash |-> getHash(cur.entry.height - 1)]
           newHeight == setTipHeight(stateHeight, tip)
       IN
       IF newHeight = -2
       THEN /\ OpenFails(BadChainSyncError)
            /\ UNCHANGED <<hashIdx, tipR, stateHeight>>
       ELSE /\ hashIdx' = setTipHashes(hashIdx, stateHeight, tip)
            /\ tipR' = newHeight
            /\ stateHeight' = newHeight
            /\ UNCHANGED <<pc, lastError>>
    /\ cur' = NoEvent
    /\ UNCHANGED <<netVars, walkVars, syncVars, handleVars, callVars, histVars, poolVars, loc, replayEntry, lifeVars, resetVars, forkAt, records, startMarker, startHeight, startTip, chainVars,
                   events, crashed, options, lastFork>>
    /\ lock' = "free"

-----------------------------------------------------------------------------
(* The locator sent to peers: getLocator() for the current tip *)

\* chain.getAncestor(entry, height): walk the chain's entries back by prevBlock.
RECURSIVE getAncestor(_, _)
getAncestor(entry, height) ==
    IF entry.kind # "entry" \/ entry.height < height THEN NoEntry
    ELSE IF entry.height = height THEN entry
    ELSE IF IsKnown(entry.prevBlock) THEN getAncestor(EntryByHash(entry.prevBlock), height)
    ELSE NoEntry

\* The while loop of _getLocator: locator entries are kept with their heights;
\* ok turns FALSE when assert(hash) or assert(ancestor) fails.
RECURSIVE LocatorLoop(_, _, _, _, _)
LocatorLoop(entry, main, height, step, acc) ==
    LET end == startHeight IN
    IF ~(height > end) \/ ~acc.ok THEN acc
    ELSE LET h1 == height - step
             h2 == IF h1 < end THEN end ELSE h1
             step2 == IF Len(acc.hashes) > 10 THEN step * 2 ELSE step
             ancestor == IF main THEN NoEntry ELSE getAncestor(entry, h2)
             hash == IF main THEN getHash(h2) ELSE ancestor.hash
             main2 == IF main THEN TRUE ELSE isMainChain(ancestor)
         IN  LocatorLoop(entry, main2, h2, step2,
                         [ok |-> hash # ZeroHash,
                          hashes |-> Append(acc.hashes, [height |-> h2, hash |-> hash])])

\* getLocator() with no start argument: the locator of the indexer's tip.
getLocator ==
    LET entry == getEntry(stateHeight) IN
    IF entry.kind # "entry" THEN [ok |-> FALSE, hashes |-> <<>>]
    ELSE LocatorLoop(entry, isMainChain(entry), entry.height, 1,
                     [ok |-> TRUE, hashes |-> <<[height |-> entry.height, hash |-> entry.hash]>>])

\* getLocator(start) with a start hash: chain.getEntryByHash(start) is null for a
\* hash the chain does not know, and isMainChain(entry) and entry.hash then throw.
getLocatorFrom(start) ==
    LET entry == IF IsKnown(start) THEN EntryByHash(start) ELSE NoEntry IN
    IF entry.kind # "entry" THEN [ok |-> FALSE, hashes |-> <<>>]
    ELSE LocatorLoop(entry, isMainChain(entry), entry.height, 1,
                     [ok |-> TRUE, hashes |-> <<[height |-> entry.height, hash |-> entry.hash]>>])

-----------------------------------------------------------------------------
(* The process ends *)

Idle == events = <<>> /\ cur = NoEvent

\* HeaderNode.close(): the node is open and has handled every event.
Close ==
    /\ pc = "open"
    /\ Idle
    /\ ProcessGone
    /\ pc' = "down"
    /\ UNCHANGED <<netVars, walkVars, callVars, forkAt, storeVars, crashed>>
    /\ openOrder' = openOrder
    /\ closeOrder' = CloseOrder

\* The process is killed between two writes of _setStartTip.
Crash ==
    /\ pc \in {"st_prev", "st_prev_tip", "st_entry", "st_entry_tip"}
    /\ ProcessGone
    /\ pc' = "down"
    /\ crashed' = TRUE
    /\ UNCHANGED <<netVars, walkVars, callVars, lifeVars, forkAt, storeVars>>

\* An error ended construction or open(): the process exits.
Exit ==
    /\ pc = "failed"
    /\ ProcessGone
    /\ pc' = "down"
    /\ UNCHANGED <<netVars, walkVars, callVars, lifeVars, forkAt, storeVars, crashed>>

-----------------------------------------------------------------------------

Next ==
    \/ \E opts \in Configs : Construct(opts)
    \/ OpenSetStartTip
    \/ WriteStartMarker
    \/ StartIndexPrev
    \/ StartSetTipPrev
    \/ StartIndexEntry
    \/ StartSetTipEntry
    \/ SuperOpen
    \/ InitializeChain
    \/ \E h \in 1..MaxHeight, b \in {0, 1} : ReceiveHeader(h, b)
    \/ \E h \in Heights : ResetChain(h)
    \/ HandleIndex
    \/ HandleSetTip
    \/ Close
    \/ Crash
    \/ Exit

Spec == Init /\ [][Next]_vars

-----------------------------------------------------------------------------
(* Methods called directly on a constructed indexer, over a range of networks *)

CallNetworks ==
    {[lastCheckpoint |-> c, retargetInterval |-> r] : c \in 0..MaxCheckpoint, r \in 1..MaxInterval}

\* Everything a direct call leaves alone unless it says otherwise.
nodeVars == <<forkAt, storeVars, idxVars, chainVars, events, pc, cur, lastError, crashed,
              options, lastFork, lifeVars, resetVars, histVars, poolVars, lockVars, syncVars, handleVars>>

\* new HeaderIndexer(options) without a custom start, on any of the networks.
InitCalls == InitOn(CallNetworks, "down")

\* The start heights an indexer is constructed with before it is called.
CallConfigs ==
    {NoConfig} \cup {[startHeight |-> s, startTip |-> <<>>] : s \in 1..(MaxCheckpoint + 1)}

\* What validateStartHeight is called with: something that is no number, or a number.
CallArgs ==
    {[number |-> FALSE, value |-> 0]}
    \cup {[number |-> TRUE, value |-> v] : v \in (-1)..(MaxCheckpoint + 1)}

\* indexer.validateStartHeight(arg)
CallValidateStartHeight(arg) ==
    /\ pc = "constructed"
    /\ ret' = IF ~arg.number THEN Threw("validateStartHeight", arg, NotNumberError)
              ELSE LET v == validateStartHeight(arg.value) IN
                   IF v = "throw"
                   THEN Threw("validateStartHeight", arg, validateStartHeightError(arg.value))
                   ELSE Returned("validateStartHeight", arg, IF v = "valid" THEN 1 ELSE 0)
    /\ UNCHANGED <<netVars, walkVars, nodeVars>>

\* indexer.getHistoricalPoint()
CallGetHistoricalPoint ==
    /\ pc = "constructed"
    /\ ret' = Returned("getHistoricalPoint", NoArg, getHistoricalPoint)
    /\ UNCHANGED <<netVars, walkVars, nodeVars>>

\* The checkpoints set by hand: none (reset), or a block of either branch.
CustomCheckpoints ==
    {[height |-> 0, hash |-> Absent]}
    \cup {[height |-> h, hash |-> Hash(h, b)] : h \in {2, 5}, b \in {0, 1}}

\* this.network.checkpoints.sort(...) left out: the new checkpoint stays last.
sortCheckpointsSkipped(list) == list

\* list.sort((a, b) => a.height - b.height): ascending by height, equal heights
\* keep their order.
RECURSIVE sortCheckpoints(_)
sortCheckpoints(list) ==
    IF list = <<>> THEN <<>>
    ELSE LET n == Len(list)
             sorted == sortCheckpoints(SubSeq(list, 1, n - 1))
             e == list[n]
             k == Cardinality({i \in 1..Len(sorted) : sorted[i].height <= e.height})
         IN  SubSeq(sorted, 1, k) \o <<e>> \o SubSeq(sorted, k + 1, Len(sorted))

\* indexer.setCustomCheckpoint(height = 0, hash)
SetCustomCheckpoint(c) ==
    /\ pc = "constructed"
    /\ c.height # 0 => Len(checkpointList) < MaxCheckpoints
    /\ lastCheckpoint' = c.height
    /\ IF c.height # 0
       THEN /\ checkpointMap' = [checkpointMap EXCEPT ![c.height] = c.hash]
            /\ checkpointList' = sortCheckpoints(Append(checkpointList, [hash |-> c.hash, height |-> c.height]))
       ELSE /\ checkpointMap' = EmptyCheckpointMap
            /\ checkpointList' = <<>>
    /\ ret' = Returned("setCustomCheckpoint", [number |-> TRUE, value |-> c.height], c.hash)
    /\ UNCHANGED <<retargetInterval, checkpoints, walkVars, nodeVars>>

NextCalls ==
    \/ \E opts \in CallConfigs : Construct(opts)
    \/ CallGetHistoricalPoint
    \/ \E arg \in CallArgs : CallValidateStartHeight(arg)
    \/ \E c \in CustomCheckpoints : SetCustomCheckpoint(c)

SpecCalls == InitCalls /\ [][NextCalls]_vars

-----------------------------------------------------------------------------
(* Headers delivered in batches: the chain goes on adding the headers of a *)
(* packet while the indexer still handles the events of earlier ones       *)

NextBatch ==
    \/ Construct(NoConfig)
    \/ OpenSetStartTip
    \/ SuperOpen
    \/ InitializeChain
    \/ \E h \in 1..MaxHeight, b \in {0, 1} : ChainAdd(h, b)
    \/ HandleIndex
    \/ HandleSetTip

SpecBatch == Init /\ [][NextBatch]_vars

-----------------------------------------------------------------------------
(* Orphan headers: HeaderPool.resolveOrphan *)

\* A peer sends the header at height h of branch 0 whose parent the chain does not
\* know: chain.add keeps it as an orphan.
ReceiveOrphan(h) ==
    /\ pc = "open"
    /\ Idle
    /\ orphan = Absent
    /\ ~IsKnown(Hash(h, 0))
    /\ ~IsKnown(PrevHash(h, 0, forkAt))
    /\ orphan' = h
    /\ rounds' = 0
    /\ request' = FALSE
    /\ UNCHANGED <<netVars, walkVars, syncVars, handleVars, callVars, histVars, lockVars, lifeVars, resetVars, forkAt, storeVars, idxVars, chainVars,
                   events, pc, cur, lastError, crashed, options, lastFork>>

\* resolveOrphan(peer, orphan): the locator and the orphan's root go to the peer in
\* a getblocks.  Nothing counts the calls against a limit and nothing removes the orphan.
ResolveOrphan ==
    /\ pc = "open"
    /\ orphan # Absent
    /\ ~request
    /\ lock = "free"
    /\ getLocator.ok
    /\ request' = TRUE
    /\ rounds' = IF rounds < MaxRounds THEN rounds + 1 ELSE rounds
    /\ UNCHANGED <<netVars, walkVars, syncVars, handleVars, callVars, histVars, lockVars, lifeVars, resetVars, forkAt, storeVars, idxVars, chainVars,
                   events, pc, cur, lastError, crashed, options, lastFork, orphan>>

\* The peer's answer does not hold the orphan's parent and announces the orphan
\* again, or the request runs out and the orphan is announced again: the chain
\* has it as an orphan, the pool goes on to resolveOrphan.
PeerRepeatsOrphan ==
    /\ pc = "open"
    /\ orphan # Absent
    /\ request
    /\ request' = FALSE
    /\ UNCHANGED <<netVars, walkVars, syncVars, handleVars, callVars, histVars, lockVars, lifeVars, resetVars, forkAt, storeVars, idxVars, chainVars,
                   events, pc, cur, lastError, crashed, options, lastFork, orphan, rounds>>

\* The orphan's parent has been added to the chain: the orphan is connected.
ConnectOrphan ==
    /\ orphan # Absent
    /\ Idle
    /\ AddHeader(orphan, 0)
    /\ orphan' = Absent
    /\ rounds' = 0
    /\ request' = FALSE

\* A peer sends a header other than the orphan, of a known parent.
ReceiveOther(h, b) ==
    /\ h # orphan \/ b # 0
    /\ ReceiveHeader(h, b)

NextOrphan ==
    \/ Construct(NoConfig)
    \/ OpenSetStartTip
    \/ SuperOpen
    \/ InitializeChain
    \/ \E h \in 1..MaxHeight, b \in {0, 1} : ReceiveOther(h, b)
    \/ \E h \in 2..MaxHeight : ReceiveOrphan(h)
    \/ ResolveOrphan
    \/ PeerRepeatsOrphan
    \/ ConnectOrphan
    \/ HandleIndex
    \/ HandleSetTip
    \/ Close

\* The node's own steps are taken when they can be and a getblocks is answered or
\* runs out; which headers peers send and when the node is closed is up to the
\* environment.
SpecOrphan ==
    /\ Init
    /\ [][NextOrphan]_vars
    /\ WF_vars(OpenSetStartTip)
    /\ WF_vars(SuperOpen)
    /\ WF_vars(InitializeChain)
    /\ WF_vars(ResolveOrphan)
    /\ WF_vars(PeerRepeatsOrphan)
    /\ WF_vars(ConnectOrphan)
    /\ WF_vars(HandleIndex)
    /\ WF_vars(HandleSetTip)

-----------------------------------------------------------------------------
(* indexBlock and unindexBlock called directly on the indexer of an open node *)

\* The entry of block (h, b) the calls are made with; branch 1 forks off above genesis.
CallEntry(h, b) == BlockEntry(h, b, 0, h + 1)

\* indexer.indexBlock(entry)
CallIndexBlock(h, b) ==
    /\ pc = "open"
    /\ Idle
    /\ records' = indexBlock(records, CallEntry(h, b))
    /\ ret' = Returned("indexBlock", [number |-> TRUE, value |-> h], Hash(h, b))
    /\ UNCHANGED <<netVars, walkVars, syncVars, handleVars, histVars, poolVars, lockVars, lifeVars, resetVars, forkAt, hashIdx, tipR, startMarker,
                   idxVars, chainVars, events, pc, cur, lastError, crashed, options, lastFork>>

\* indexer.unindexBlock(entry)
CallUnindexBlock(h, b) ==
    /\ pc = "open"
    /\ Idle
    /\ records' = unindexBlock(records, CallEntry(h, b))
    /\ deleted' = records[h]
    /\ ret' = Returned("unindexBlock", [number |-> TRUE, value |-> h], Hash(h, b))
    /\ UNCHANGED <<netVars, walkVars, syncVars, handleVars, batched, poolVars, lockVars, lifeVars, resetVars, forkAt, hashIdx, tipR, startMarker,
                   idxVars, chainVars, events, pc, cur, lastError, crashed, options, lastFork>>

NextIndex ==
    \/ \E opts \in Configs : Construct(opts)
    \/ OpenSetStartTip
    \/ WriteStartMarker
    \/ StartIndexPrev
    \/ StartSetTipPrev
    \/ StartIndexEntry
    \/ StartSetTipEntry
    \/ SuperOpen
    \/ InitializeChain
    \/ \E h \in 1..MaxCallHeight, b \in {0, 1} : CallIndexBlock(h, b)
    \/ \E h \in 1..MaxCallHeight, b \in {0, 1} : CallUnindexBlock(h, b)

SpecIndex == Init /\ [][NextIndex]_vars

-----------------------------------------------------------------------------
(* getLocator(start) called by the pool's getHeaders / getBlocks on a running *)
(* node, with the hash of a block the chain knows or does not know            *)

\* The store is closed, the walk met a height without a hash, or there is no
\* entry to start from.
LocatorError == [kind |-> "locator", retarget |-> FALSE, nums |-> {}]

\* await this.headerindex.getLocator(tip) with tip the hash of block (h, b).
CallGetLocator(h, b) ==
    /\ pc = "open"
    /\ Idle
    /\ lock = "free"
    /\ LET start == Hash(h, b)
           r == getLocatorFrom(start)
       IN  ret' = IF r.ok
                  THEN Returned("getLocator", [number |-> TRUE, value |-> start], Len(r.hashes))
                  ELSE Threw("getLocator", [number |-> TRUE, value |-> start], LocatorError)
    /\ UNCHANGED <<netVars, walkVars, nodeVars>>

NextStart ==
    \/ Construct(NoConfig)
    \/ OpenSetStartTip
    \/ SuperOpen
    \/ InitializeChain
    \/ \E h \in 1..MaxStartHeight, b \in {0, 1} : ReceiveHeader(h, b)
    \/ HandleIndex
    \/ HandleSetTip
    \/ \E h \in 1..(MaxStartHeight + 1), b \in {0, 1} : CallGetLocator(h, b)

SpecStart == Init /\ [][NextStart]_vars

-----------------------------------------------------------------------------
(* The pool starts syncing from a peer: HeaderPool.sendSync, called more than *)
(* once on the same peer, and HeaderPool.resync                               *)

\* Everything the pool's calls leave alone.
poolFrame == <<netVars, walkVars, handleVars, callVars, histVars, poolVars, lockVars, lifeVars, resetVars,
               forkAt, storeVars, idxVars, chainVars, events, pc, cur, lastError, crashed,
               options, lastFork>>

\* A sendSync that does not look at peer.syncing before it goes on.
sendSyncUnchecked(c, syncable) ==
    /\ pc = "open"
    /\ sync[c] = "idle"
    /\ IF ~syncable
       THEN /\ sync' = [sync EXCEPT ![c] = "refused"]
            /\ peer' = peer
       ELSE /\ sync' = [sync EXCEPT ![c] = "locating"]
            /\ peer' = [peer EXCEPT !.syncing = TRUE, !.blockTime = 1]
    /\ UNCHANGED <<poolFrame, emitted>>

\* sendSync(peer) up to its await: if (peer.syncing) return false;
\* if (!this.isSyncable(peer)) return false; peer.syncing = true;
\* peer.blockTime = Date.now().  syncable is what isSyncable(peer) answers.
sendSync(c, syncable) ==
    /\ pc = "open"
    /\ sync[c] = "idle"
    /\ IF peer.syncing \/ ~syncable
       THEN /\ sync' = [sync EXCEPT ![c] = "refused"]
            /\ peer' = peer
       ELSE /\ sync' = [sync EXCEPT ![c] = "locating"]
            /\ peer' = [peer EXCEPT !.syncing = TRUE, !.blockTime = 1]
    /\ UNCHANGED <<poolFrame, emitted>>

\* sendLocator(locator, peer): the locator goes to the peer, which is syncing from then on.
sendLocator == [peer EXCEPT !.syncing = TRUE, !.blockTime = 1, !.sent = peer.sent + 1]

\* A sendSync whose catch block emits the error and leaves the peer as it is.
sendSyncResumeKeepsPeer(c) ==
    /\ sync[c] = "locating"
    /\ lock = "free"
    /\ IF pc = "open" /\ getLocator.ok
       THEN /\ peer' = sendLocator
            /\ sync' = [sync EXCEPT ![c] = "sent"]
            /\ emitted' = emitted
       ELSE /\ peer' = peer
            /\ emitted' = emitted + 1
            /\ sync' = [sync EXCEPT ![c] = "failed"]
    /\ UNCHANGED poolFrame

\* sendSync(peer) from its await on: locator = await this.headerindex.getLocator();
\* the catch block sets peer.syncing = false, peer.blockTime = -1, emits 'error' and
\* returns false; otherwise return this.sendLocator(locator, peer).
sendSyncResume(c) ==
    /\ sync[c] = "locating"
    /\ lock = "free"
    /\ IF pc = "open" /\ getLocator.ok
       THEN /\ peer' = sendLocator
            /\ sync' = [sync EXCEPT ![c] = "sent"]
            /\ emitted' = emitted
       ELSE /\ peer' = [peer EXCEPT !.syncing = FALSE, !.blockTime = -1]
            /\ emitted' = emitted + 1
            /\ sync' = [sync EXCEPT ![c] = "failed"]
    /\ UNCHANGED poolFrame

\* resync(force): the locator goes to the peer unless the peer is syncing and
\* force is not set; when getLocator throws, the error is emitted and nothing is sent.
resync(force) ==
    /\ pc = "open"
    /\ lock = "free"
    /\ peer.sent < MaxSyncCalls
    /\ emitted < MaxSyncCalls
    /\ IF ~getLocator.ok
       THEN /\ emitted' = emitted + 1
            /\ peer' = peer
       ELSE /\ emitted' = emitted
            /\ peer' = IF ~force /\ peer.syncing THEN peer ELSE sendLocator
    /\ UNCHANGED <<poolFrame, sync>>

\* The node is run without a start height and with the start tip of height 3.
SyncConfigs == {NoConfig, [startHeight |-> 0, startTip |-> ConfigTip(3)]}

NextSync ==
    \/ \E opts \in SyncConfigs : Construct(opts)
    \/ OpenSetStartTip
    \/ WriteStartMarker
    \/ StartIndexPrev
    \/ StartSetTipPrev
    \/ StartIndexEntry
    \/ StartSetTipEntry
    \/ SuperOpen
    \/ InitializeChain
    \/ \E h \in 1..MaxLockHeight : ReceiveHeader(h, 0)
    \/ HandleIndex
    \/ HandleSetTip
    \/ \E c \in 1..MaxSyncCalls, syncable \in BOOLEAN : sendSync(c, syncable)
    \/ \E c \in 1..MaxSyncCalls : sendSyncResume(c)
    \/ \E force \in BOOLEAN : resync(force)
    \/ Crash

SpecSync == Init /\ [][NextSync]_vars

-----------------------------------------------------------------------------
(* A node configured with a start tip that _setStartTip does not accept       *)

\* The start tip of height s whose first entry is a block of another branch: the
\* second entry's prevBlock is not the first entry's hash.
BrokenTip(s) == <<BlockEntry(s - 1, 1, 0, s), BlockEntry(s, 0, Absent, s + 1)>>

\* The start tip that begins with the genesis block.
GenesisTip == <<Genesis, BlockEntry(1, 0, Absent, 2)>>

\* Start tips a node is constructed with: well-formed, broken, and from genesis.
TipConfigs ==
    {[startHeight |-> 0, startTip |-> ConfigTip(s)] : s \in {2, 3}}
    \cup {[startHeight |-> 0, startTip |-> BrokenTip(s)] : s \in {2, 3}}
    \cup {[startHeight |-> 0, startTip |-> GenesisTip]}

NextTip ==
    \/ \E opts \in TipConfigs : Construct(opts)
    \/ OpenSetStartTip
    \/ WriteStartMarker
    \/ StartIndexPrev
    \/ StartSetTipPrev
    \/ StartIndexEntry
    \/ StartSetTipEntry
    \/ SuperOpen
    \/ InitializeChain
    \/ \E h \in 1..MaxHeight : ReceiveHeader(h, 0)
    \/ HandleIndex
    \/ HandleSetTip
    \/ Close
    \/ Exit

SpecTip == Init /\ [][NextTip]_vars

-----------------------------------------------------------------------------
(* The checkpoint of the shared network object is changed by hand while the   *)
(* indexer is open, between writes and reads of the index                     *)

\* indexer.setCustomCheckpoint(height, hash) on an open indexer.
CallSetCustomCheckpoint(c) ==
    /\ pc = "open"
    /\ Idle
    /\ c.height # 0 => Len(checkpointList) < MaxCheckpoints
    /\ lastCheckpoint' = c.height
    /\ IF c.height # 0
       THEN /\ checkpointMap' = [checkpointMap EXCEPT ![c.height] = c.hash]
            /\ checkpointList' = sortCheckpoints(Append(checkpointList, [hash |-> c.hash, height |-> c.height]))
       ELSE /\ checkpointMap' = EmptyCheckpointMap
            /\ checkpointList' = <<>>
    /\ ret' = Returned("setCustomCheckpoint", [number |-> TRUE, value |-> c.height], c.hash)
    /\ UNCHANGED <<retargetInterval, checkpoints, walkVars, nodeVars>>

\* Headers.fromRaw or ChainEntry.fromRaw threw on the stored bytes.
EncodingError == [kind |-> "encoding", retarget |-> FALSE, nums |-> {}]

\* indexer.getHeader(height): the hash of what was read, -1 for null.
CallGetHeader(h) ==
    /\ pc = "open"
    /\ Idle
    /\ LET header == getHeader(h) IN
       ret' = IF header.kind = "error"
              THEN Threw("getHeader", [number |-> TRUE, value |-> h], EncodingError)
              ELSE Returned("getHeader", [number |-> TRUE, value |-> h], header.hash)
    /\ UNCHANGED <<netVars, walkVars, nodeVars>>

NextVariant ==
    \/ Construct(NoConfig)
    \/ OpenSetStartTip
    \/ SuperOpen
    \/ InitializeChain
    \/ \E h \in 1..MaxCallHeight : CallIndexBlock(h, 0)
    \/ \E c \in CustomCheckpoints : CallSetCustomCheckpoint(c)
    \/ \E h \in 0..MaxCallHeight : CallGetHeader(h)

SpecVariant == Init /\ [][NextVariant]_vars

-----------------------------------------------------------------------------
(* The indexer's lock: the methods that take it, one step at a time, with     *)
(* getLocator called by the pool at any moment of the indexer's life          *)

\* initializeChain: const unlock = await this.lock.lock(); _initializeChain reads the
\* two tips and, when the chain is behind the index, picks the entry the replay
\* starts from.  When there is nothing to replay the lock is released at once.
RebuildBegin ==
    /\ pc = "initchain"
    /\ lock = "free"
    /\ IF tipR # Absent /\ chainDbTip.height < tipR
       THEN /\ lock' = "initializeChain"
            /\ pc' = "rebuilding"
            /\ replayEntry' = ReplayStart
            /\ openOrder' = openOrder
       ELSE /\ lock' = "free"
            /\ pc' = "open"
            /\ replayEntry' = NoEntry
            /\ openOrder' = OpenOrder
    /\ closeOrder' = closeOrder
    /\ UNCHANGED <<netVars, walkVars, syncVars, handleVars, callVars, histVars, poolVars, loc, resetVars, forkAt, storeVars, idxVars,
                   chainVars, events, cur, lastError, crashed, options, lastFork>>

\* One turn of the loop: addEntryToChain(entry); entry = getEntry(entry.height + 1).
RebuildStep ==
    /\ pc = "rebuilding"
    /\ replayEntry.kind = "entry"
    /\ replayEntry.height <= tipR
    /\ chainDb' = addEntryToChain(chainDb, replayEntry)
    /\ chainDbTip' = replayEntry
    /\ events' = events \o addEntryEmits(replayEntry)
    /\ replayEntry' = IF replayEntry.height + 1 \in Heights
                      THEN getEntry(replayEntry.height + 1) ELSE NoEntry
    /\ UNCHANGED <<netVars, walkVars, syncVars, handleVars, callVars, histVars, poolVars, lock, loc, lifeVars, resetVars, forkAt,
                   storeVars, idxVars, chainSide, chainTip, pc, cur, lastError, crashed, options,
                   lastFork>>

\* The loop is over: chain.close(); chain.open(); the finally block releases the
\* lock, also when a record could not be read.
RebuildEnd ==
    /\ pc = "rebuilding"
    /\ ~(replayEntry.kind = "entry" /\ replayEntry.height <= tipR)
    /\ IF replayEntry.kind = "error"
       THEN /\ OpenFails(ReplayError)
            /\ chainTip' = chainTip
            /\ openOrder' = openOrder
       ELSE /\ chainTip' = chainDbTip
            /\ pc' = "open"
            /\ lastError' = lastError
            /\ openOrder' = OpenOrder
    /\ lock' = "free"
    /\ replayEntry' = NoEntry
    /\ closeOrder' = closeOrder
    /\ UNCHANGED <<netVars, walkVars, syncVars, handleVars, callVars, histVars, poolVars, loc, resetVars, forkAt, storeVars, idxVars,
                   chainDb, chainSide, chainDbTip, events, cur, crashed, options, lastFork>>

\* The pool calls headerindex.getLocator(): the call waits for the lock.
GetLocatorCall ==
    /\ pc \notin {"down", "failed"}
    /\ loc = "idle"
    /\ loc' = "waiting"
    /\ UNCHANGED <<netVars, walkVars, syncVars, handleVars, callVars, histVars, poolVars, lock, replayEntry, lifeVars, resetVars,
                   forkAt, storeVars, idxVars, chainVars, events, pc, cur, lastError, crashed,
                   options, lastFork>>

\* A getLocator that goes on to _getLocator without the lock.
GetLocatorUnlocked ==
    /\ loc = "waiting"
    /\ lock' = "getLocator"
    /\ loc' = "computing"
    /\ UNCHANGED <<netVars, walkVars, syncVars, handleVars, callVars, histVars, poolVars, replayEntry, lifeVars, resetVars, forkAt,
                   storeVars, idxVars, chainVars, events, pc, cur, lastError, crashed, options,
                   lastFork>>

\* const unlock = await this.lock.lock() resolves: the lock is free and is taken.
GetLocatorBegin ==
    /\ loc = "waiting"
    /\ lock = "free"
    /\ lock' = "getLocator"
    /\ loc' = "computing"
    /\ UNCHANGED <<netVars, walkVars, syncVars, handleVars, callVars, histVars, poolVars, replayEntry, lifeVars, resetVars, forkAt,
                   storeVars, idxVars, chainVars, events, pc, cur, lastError, crashed, options,
                   lastFork>>

\* The chain's lock is held by chain.add from the header's arrival until the
\* indexer has handled every event the chain emitted for it.
ChainLocked == ~Idle

\* A _getLocator that asks the chain for the locator: chain.getLocator takes the
\* chain's lock.
GetLocatorEndViaChain ==
    /\ loc = "computing"
    /\ ~ChainLocked
    /\ ret' = IF pc \in {"initchain", "rebuilding", "open"} /\ getLocator.ok
              THEN Returned("getLocator", NoArg, Len(getLocator.hashes))
              ELSE Threw("getLocator", NoArg, LocatorError)
    /\ lock' = "free"
    /\ loc' = "idle"
    /\ UNCHANGED <<netVars, walkVars, syncVars, handleVars, histVars, poolVars, replayEntry, lifeVars, resetVars, forkAt, storeVars,
                   idxVars, chainVars, events, pc, cur, lastError, crashed, options, lastFork>>

\* return await this._getLocator(start), then the finally block releases the lock.
\* The value kept of the locator is the number of its hashes.
GetLocatorEnd ==
    /\ loc = "computing"
    /\ ret' = IF pc \in {"initchain", "rebuilding", "open"} /\ getLocator.ok
              THEN Returned("getLocator", NoArg, Len(getLocator.hashes))
              ELSE Threw("getLocator", NoArg, LocatorError)
    /\ lock' = "free"
    /\ loc' = "idle"
    /\ UNCHANGED <<netVars, walkVars, syncVars, handleVars, histVars, poolVars, replayEntry, lifeVars, resetVars, forkAt, storeVars,
                   idxVars, chainVars, events, pc, cur, lastError, crashed, options, lastFork>>

\* The node is run without a start height and with the start tip of height 2.
LockConfigs == {NoConfig, [startHeight |-> 0, startTip |-> ConfigTip(2)]}

NextLock ==
    \/ \E opts \in LockConfigs : Construct(opts)
    \/ OpenSetStartTip
    \/ WriteStartMarker
    \/ StartIndexPrev
    \/ StartSetTipPrev
    \/ StartIndexEntry
    \/ StartSetTipEntry
    \/ SuperOpen
    \/ RebuildBegin
    \/ RebuildStep
    \/ RebuildEnd
    \/ GetLocatorCall
    \/ GetLocatorBegin
    \/ GetLocatorEnd
    \/ \E h \in 1..MaxLockHeight : ReceiveHeader(h, 0)
    \/ HandleIndex
    \/ HandleSetTip
    \/ Close

\* Every continuation whose promise has resolved is run by the event loop; the
\* lock serves its waiters in the order of their arrival, so that a waiter is
\* not passed over for ever.
SpecLock ==
    /\ Init
    /\ [][NextLock]_vars
    /\ WF_vars(OpenSetStartTip)
    /\ WF_vars(WriteStartMarker)
    /\ WF_vars(StartIndexPrev)
    /\ WF_vars(StartSetTipPrev)
    /\ WF_vars(StartIndexEntry)
    /\ WF_vars(StartSetTipEntry)
    /\ WF_vars(SuperOpen)
    /\ WF_vars(RebuildBegin)
    /\ WF_vars(RebuildStep)
    /\ WF_vars(RebuildEnd)
    /\ SF_vars(GetLocatorBegin)
    /\ WF_vars(GetLocatorEnd)
    /\ SF_vars(HandleIndex)
    /\ WF_vars(HandleSetTip)

-----------------------------------------------------------------------------
(* The walk of _getLocator over the heights, one turn of its loop at a time, *)
(* on chains tall enough for the step to grow                                 *)

\* let height = entry.height; let step = 1; hashes.push(hash);
\* const end = this.startHeight: the walk from the tip at height tip to the floor end.
LocatorStart(tip, end) ==
    /\ walk = NoWalk
    /\ walk' = [tip |-> tip, end |-> end, height |-> tip, step |-> 1, hashes |-> <<tip>>,
                running |-> TRUE]
    /\ UNCHANGED <<netVars, callVars, nodeVars>>

\* A turn of the loop that doubles the step as soon as 10 hashes are collected.
LocatorTurnDoublesFromTen ==
    /\ walk.running
    /\ walk.height > walk.end
    /\ LET below == walk.height - walk.step
           height == IF below < walk.end THEN walk.end ELSE below
           step == IF Len(walk.hashes) >= 10 THEN walk.step * 2 ELSE walk.step
       IN  walk' = [walk EXCEPT !.height = height, !.step = step,
                                !.hashes = Append(walk.hashes, height)]
    /\ UNCHANGED <<netVars, callVars, nodeVars>>

\* while (height > end) { height -= step; if (height < end) height = end;
\* if (hashes.length > 10) step *= 2; ...; hashes.push(hash) }: one turn.
LocatorTurn ==
    /\ walk.running
    /\ walk.height > walk.end
    /\ LET below == walk.height - walk.step
           height == IF below < walk.end THEN walk.end ELSE below
           step == IF Len(walk.hashes) > 10 THEN walk.step * 2 ELSE walk.step
       IN  walk' = [walk EXCEPT !.height = height, !.step = step,
                                !.hashes = Append(walk.hashes, height)]
    /\ UNCHANGED <<netVars, callVars, nodeVars>>

\* The loop's condition fails: return hashes.
LocatorReturn ==
    /\ walk.running
    /\ ~(walk.height > walk.end)
    /\ walk' = [walk EXCEPT !.running = FALSE]
    /\ UNCHANGED <<netVars, callVars, nodeVars>>

NextLocator ==
    \/ \E tip \in 0..MaxLocatorTip : \E end \in 0..tip : LocatorStart(tip, end)
    \/ LocatorTurn
    \/ LocatorReturn

\* The loop awaits nothing but reads of the store: each turn is taken in its time.
SpecLocator ==
    /\ Init
    /\ [][NextLocator]_vars
    /\ WF_vars(LocatorTurn)
    /\ WF_vars(LocatorReturn)

-----------------------------------------------------------------------------
(* Properties *)

HasRecord(h) == records[h].kind # "none"

\* The lowest height the store is meant to hold: s - 1 under a start marker s, else 0.
StoreFloor == IF startMarker # Absent THEN startMarker - 1 ELSE 0

\* The locator's floor: the start marker s, else 0.
LocatorFloor == IF startMarker # Absent THEN startMarker ELSE 0

Linked(h) == HasRecord(h) /\ HasRecord(h + 1) /\ records[h + 1].prevBlock = records[h].hash

\* The node is open, has handled every event and was never killed mid-write.
Settled == pc = "open" /\ Idle /\ ~crashed

\* The start the process was configured with (0: none).
ConfiguredStart ==
    IF options.startTip # <<>> THEN options.startTip[2].height ELSE options.startHeight

\* C1 (as stated): once the indexer has handled every connect and disconnect the
\* chain emitted, the store is contiguous from its floor (0, or s - 1 under a start
\* marker s) to the tip: both records exist and prevBlock of h + 1 is the hash of h.
C1_StoreContiguous ==
    Settled => \A h \in StoreFloor..(tipR - 1) : Linked(h)

\* C2: with checkpoints enabled, every stored record is a ChainEntry exactly when its
\* height is above the historical point, and a bare Header otherwise.
C2_RecordVariant ==
    checkpoints =>
        \A h \in Heights :
            HasRecord(h) => (records[h].kind = "entry" <=> h > getHistoricalPoint)

\* C2 witness: a bare Header stored at the historical point (above genesis) and a
\* ChainEntry stored right above it.
C2_BothVariantsStored ==
    /\ checkpoints
    /\ getHistoricalPoint > 0
    /\ records[getHistoricalPoint].kind = "header"
    /\ records[getHistoricalPoint + 1].kind = "entry"

\* C3 (as stated): once open() has returned, with no peer input needed, the chain's
\* tip height equals the persisted indexer tip height T.
C3_ReopenRestoresChainTip ==
    Settled => chainTip.height = tipR

\* C4 (as stated): in every persisted state, the states between the writes of the
\* custom-start initialisation included, a start marker s is at most the historical
\* point and the records at s - 1 and s exist.
C4_MarkerHasItsRecords ==
    startMarker # Absent =>
        /\ startMarker <= getHistoricalPoint
        /\ HasRecord(startMarker - 1)
        /\ HasRecord(startMarker)

\* C5 (as stated): under a start marker s, getHeader returns null for every height
\* below s - 1 and a header for s - 1, s and every synced height above s.
C5_NothingBelowStart ==
    (Settled /\ startMarker # Absent) =>
        /\ \A h \in Heights : h < startMarker - 1 => getHeader(h).kind = "none"
        /\ \A h \in (startMarker - 1)..tipR : getHeader(h).kind # "none"

\* C6 (as stated): for a tip at or above the floor (the start marker s, else 0) the
\* locator starts with the tip's hash, its heights decrease strictly, none is below
\* the floor, and its last hash is the hash stored at the floor.
C6_LocatorEndsAtFloor ==
    (Settled /\ tipR >= LocatorFloor) =>
        LET l == getLocator
            n == Len(l.hashes)
        IN  /\ l.ok
            /\ l.hashes[1].hash = records[tipR].hash
            /\ \A i \in 1..(n - 1) : l.hashes[i + 1].height < l.hashes[i].height
            /\ \A i \in 1..n : l.hashes[i].height >= LocatorFloor
            /\ l.hashes[n].hash = records[LocatorFloor].hash

\* C7 (as stated): a process configured with a start (height or tip) above the
\* historical point gets no further than a failed open, and the error names the
\* historical point and says "retarget".
C7_TooHighStartRefused ==
    ConfiguredStart > getHistoricalPoint =>
        /\ pc = "failed"
        /\ lastError.retarget
        /\ getHistoricalPoint \in lastError.nums

\* C8 (as stated): once 'Cannot retroactively change start height' has been raised
\* for a stored marker s, open has failed and the stored marker is still s.
C8_StartMismatchIsFatal ==
    (~crashed /\ lastError.kind = "retroactive") =>
        /\ pc = "failed"
        /\ startMarker \in lastError.nums

\* The events the indexer has still to finish, oldest first.
Pending == (IF cur # NoEvent THEN <<cur>> ELSE <<>>) \o events

\* C9: the events of a reorganisation are handled in the order emitted, every
\* disconnect (descending heights) before any connect (ascending heights); and once
\* they are handled the store holds the new branch at every height above the fork up
\* to the new tip, and no record of the old branch.
C9_ReorgOrderAndStore ==
    /\ \A i, j \in 1..Len(Pending) :
         i < j =>
            /\ ~(Pending[i].type = "connect" /\ Pending[j].type = "disconnect")
            /\ (Pending[i].type = "disconnect" /\ Pending[j].type = "disconnect")
                  => Pending[j].entry.height = Pending[i].entry.height - (j - i)
            /\ (Pending[i].type = "connect" /\ Pending[j].type = "connect")
                  => Pending[j].entry.height = Pending[i].entry.height + (j - i)
    /\ (pc = "open" /\ Idle /\ lastFork # Absent) =>
         /\ \A h \in (lastFork + 1)..chainTip.height :
               HasRecord(h) /\ records[h].hash = chainDb[h].hash
         /\ \A e \in chainSide : e.height > lastFork => records[e.height].hash # e.hash

\* C9 witness: a reorganisation that took at least two blocks off the old branch and
\* put at least two of the new branch on has been handled completely.
C9_ReorgHandled ==
    /\ pc = "open"
    /\ Idle
    /\ lastFork # Absent
    /\ chainTip.height >= lastFork + 2
    /\ Cardinality({e \in chainSide : e.height > lastFork}) >= 2

\* C10: when a chain of N headers built on genesis has been fed in order and handled,
\* the indexer tip is N and the record at every height 0..N is the header of the fed
\* chain at that height: the tip's, then each one's parent, down to genesis.
C10_StoreMirrorsFedChain ==
    (pc = "open" /\ Idle /\ startMarker = Absent) =>
        /\ tipR = chainTip.height
        /\ records[tipR].hash = chainTip.hash
        /\ records[0].hash = Genesis.hash
        /\ \A h \in 0..(tipR - 1) : Linked(h)
        /\ \A h \in 0..tipR : chainDb[h].kind = "entry" => records[h].hash = chainDb[h].hash

\* C10 witness: four or more headers were fed on genesis in this process and handled.
C10_ChainFed ==
    /\ pc = "open"
    /\ Idle
    /\ startMarker = Absent
    /\ tipR >= 4
    /\ \A h \in 0..tipR : chainDb[h].kind = "entry" /\ chainDb[h].chainwork = h + 1

\* C11: getHistoricalPoint returns lastCheckpoint - (lastCheckpoint mod retargetInterval)
\* when lastCheckpoint > 0 and 0 otherwise; the result is a multiple of the retarget
\* interval, at most lastCheckpoint and above lastCheckpoint - retargetInterval.
C11_HistoricalPointAtBoundary ==
    ret.op = "getHistoricalPoint" =>
        /\ ret.outcome = "returned"
        /\ (lastCheckpoint > 0 => ret.value = lastCheckpoint - (lastCheckpoint % retargetInterval))
        /\ (lastCheckpoint = 0 => ret.value = 0)
        /\ \E k \in 0..MaxCheckpoint : ret.value = k * retargetInterval
        /\ ret.value <= lastCheckpoint
        /\ ret.value > lastCheckpoint - retargetInterval

\* getHistoricalPoint was called where the last checkpoint lies past a retarget
\* boundary and off it.
C11_PointBelowCheckpoint ==
    /\ ret.op = "getHistoricalPoint"
    /\ lastCheckpoint > retargetInterval
    /\ ret.value > 0
    /\ ret.value < lastCheckpoint

\* C12 (as stated): after headers are synced on top of genesis past the last
\* checkpoint, every record up to the last checkpoint is a bare Header and every
\* record above it is a ChainEntry with nonzero chainwork.
C12_HeadersUpToCheckpoint ==
    (Settled /\ startMarker = Absent /\ lastCheckpoint > 0 /\ tipR >= lastCheckpoint) =>
        \A h \in 0..tipR :
            /\ HasRecord(h)
            /\ (h <= lastCheckpoint => records[h].kind = "header")
            /\ (h > lastCheckpoint => records[h].kind = "entry" /\ records[h].chainwork # 0)

\* C12 (amended): after headers are synced on top of genesis past the last
\* checkpoint, every record up to the historical point is a bare Header and every
\* record above the historical point is a ChainEntry with nonzero chainwork.
C12_HeadersUpToHistoricalPoint ==
    (Settled /\ startMarker = Absent /\ lastCheckpoint > 0 /\ tipR >= lastCheckpoint) =>
        \A h \in 0..tipR :
            /\ HasRecord(h)
            /\ (h <= getHistoricalPoint => records[h].kind = "header")
            /\ (h > getHistoricalPoint => records[h].kind = "entry" /\ records[h].chainwork # 0)

\* The index was synced from genesis to a tip above the last checkpoint, which
\* lies above the historical point.
C12_SyncedPastCheckpoint ==
    /\ Settled
    /\ startMarker = Absent
    /\ getHistoricalPoint > 0
    /\ lastCheckpoint > getHistoricalPoint
    /\ tipR > lastCheckpoint
    /\ records[lastCheckpoint].kind = "entry"

\* C14: getHeader(h) returns null when no record is stored at h, the bare Header
\* of the record when h is at or below the historical point, and the stored
\* ChainEntry when h is above it.
C14_GetHeaderVariant ==
    \A h \in Heights :
        LET header == getHeader(h) IN
        /\ (~HasRecord(h) => header = NoEntry)
        /\ (HasRecord(h) /\ h <= getHistoricalPoint =>
                header.kind = "header" /\ header.hash = records[h].hash)
        /\ (HasRecord(h) /\ h > getHistoricalPoint =>
                header.kind = "entry" /\ header = records[h])

\* getHeader answers with each of its three results: a bare Header at the
\* historical point, a ChainEntry right above it, null above the tip.
C14_AllThreeAnswers ==
    /\ Settled
    /\ getHistoricalPoint > 0
    /\ getHeader(getHistoricalPoint).kind = "header"
    /\ getHeader(getHistoricalPoint + 1).kind = "entry"
    /\ getHeader(MaxHeight).kind = "none"

\* C15: getEntry(h) returns null exactly when no record is stored at h; otherwise
\* a ChainEntry of height h with the hash getHeader(h) has: the stored entry itself
\* above the historical point, an entry rebuilt with chainwork 0 at or below it.
C15_GetEntryAlwaysEntry ==
    \A h \in Heights :
        LET entry == getEntry(h) IN
        /\ (entry = NoEntry <=> ~HasRecord(h))
        /\ (HasRecord(h) =>
                /\ entry.kind = "entry"
                /\ entry.height = h
                /\ entry.hash = getHeader(h).hash
                /\ (h > getHistoricalPoint => entry = records[h])
                /\ (h <= getHistoricalPoint =>
                        entry = MkEntry(records[h].hash, records[h].prevBlock, h, 0)))

\* getEntry rebuilds an entry from a bare header below the historical point and
\* returns a stored entry, with its chainwork, above it.
C15_RebuiltAndStored ==
    /\ Settled
    /\ getHistoricalPoint > 1
    /\ records[getHistoricalPoint - 1].kind = "header"
    /\ getEntry(getHistoricalPoint - 1).chainwork = 0
    /\ getEntry(getHistoricalPoint + 1).kind = "entry"
    /\ getEntry(getHistoricalPoint + 1).chainwork > 0

\* C13: when the external lookup of the start entries fails while the node opens
\* with a start height and no start tip, open fails and neither the start marker
\* nor any record is written.
C13_LookupFailureAbortsOpen ==
    [][(lastError'.kind = "remote" /\ lastError.kind # "remote") =>
          /\ pc = "constructed"
          /\ options.startHeight # 0
          /\ options.startTip = <<>>
          /\ pc' = "failed"
          /\ storeVars' = storeVars]_vars

\* The lookup failed on the first open of an empty index directory, on a network
\* the explorer serves: open failed and the directory is still empty.
C13_LookupFailedOnFreshStore ==
    /\ lastError.kind = "remote"
    /\ pc = "failed"
    /\ lastCheckpoint # 0
    /\ options.startHeight # 0
    /\ startMarker = Absent
    /\ tipR = Absent
    /\ \A h \in Heights : ~HasRecord(h)

C17_ValidateRejects ==
    ret.op = "validateStartHeight" =>
        /\ ((lastCheckpoint > 0 /\ ret.arg.number /\ ret.arg.value >= lastCheckpoint) =>
                /\ ret.outcome = "threw"
                /\ lastCheckpoint \in ret.error.nums)
        /\ (~ret.arg.number => ret.outcome = "threw")
        /\ ((ret.arg.number /\ ret.arg.value < 0) => ret.outcome = "threw")

\* validateStartHeight was called with a height above the last checkpoint of a
\* network that has one, and threw.
C17_RejectedAboveCheckpoint ==
    /\ ret.op = "validateStartHeight"
    /\ lastCheckpoint > 0
    /\ ret.arg.number
    /\ ret.arg.value > lastCheckpoint
    /\ ret.outcome = "threw"

\* C18: setCustomCheckpoint(height > 0, hash) sets the network's lastCheckpoint to
\* height and checkpointMap[height] to hash, and leaves the checkpoints list, which
\* now holds {hash, height}, sorted by ascending height; with no height it sets
\* lastCheckpoint to 0 and empties the checkpoint map and the checkpoints list.
C18_CustomCheckpointSet ==
    ret.op = "setCustomCheckpoint" =>
        IF ret.arg.value > 0
        THEN /\ lastCheckpoint = ret.arg.value
             /\ checkpointMap[ret.arg.value] = ret.value
             /\ \E i \in 1..Len(checkpointList) :
                    checkpointList[i] = [hash |-> ret.value, height |-> ret.arg.value]
             /\ \A i \in 1..(Len(checkpointList) - 1) :
                    checkpointList[i].height <= checkpointList[i + 1].height
        ELSE /\ lastCheckpoint = 0
             /\ checkpointMap = EmptyCheckpointMap
             /\ checkpointList = <<>>

\* A checkpoint was set below one the network already had: the new entry is the
\* first of a list of two.
C18_CheckpointSetBelowExisting ==
    /\ ret.op = "setCustomCheckpoint"
    /\ ret.arg.value > 0
    /\ Len(checkpointList) = 2
    /\ checkpointList[1].height = ret.arg.value
    /\ checkpointList[2].height > ret.arg.value

\* The sequence s read backwards.
Reverse(s) == [i \in 1..Len(s) |-> s[Len(s) - i + 1]]

\* C19 (as stated): HeaderNode.close closes the components in exactly the reverse
\* of the order in which HeaderNode.open opened them.
C19_CloseReversesOpen ==
    closeOrder # <<>> => closeOrder = Reverse(openOrder)

\* C20 (as stated): a reset of the chain to a height below the start marker is
\* refused with an error.
C20_ResetBelowStartRefused ==
    (startMarker # Absent /\ lastReset.height # Absent /\ lastReset.height < startMarker) =>
        lastReset.outcome = "threw"

\* The store the indexer keeps for the chain's main chain up to its tip: at every
\* height the main-chain entry, as a bare header up to the historical point;
\* nothing above the tip.
StoreOfChain(tip) ==
    [h \in Heights |->
        IF h > tip THEN NoEntry
        ELSE IF h <= getHistoricalPoint THEN HeaderOf(chainDb[h])
        ELSE chainDb[h]]

\* C21: whenever the indexer has handled every event, the persisted tip is the
\* chain's tip and the store holds exactly the chain's main chain, however the
\* headers of the winning branch were delivered: one after another with the
\* indexer idle in between, or in a batch added while events were still queued.
\* The final tip and store are a function of the headers received alone.
C21_DeliveryIndependent ==
    (pc = "open" /\ Idle) =>
        /\ chainTip = chainDbTip
        /\ \A e \in KnownEntries : e.chainwork <= chainTip.chainwork
        /\ tipR = chainTip.height
        /\ hashIdx[tipR] = chainTip.hash
        /\ records = StoreOfChain(chainTip.height)

\* A side branch of two or more headers took over from a main chain, at least one
\* of its headers was added while the indexer still had events to handle, and
\* every event has been handled.
C21_BatchedReorgHandled ==
    /\ pc = "open"
    /\ Idle
    /\ batched
    /\ lastFork # Absent
    /\ chainTip.height >= lastFork + 2
    /\ chainTip.hash = Hash(chainTip.height, 1)
    /\ Cardinality({e \in chainSide : e.height > lastFork}) >= 1

\* C22 (as stated): an orphan the chain holds is eventually gone: connected once its
\* parent arrives, or ejected after a bounded number of resolveOrphan rounds when
\* its parent cannot be obtained.
C22_OrphanEventuallyGone ==
    [](orphan # Absent => <>(orphan = Absent))

\* C23 (as stated): in every persisted state, each of which a crash can leave
\* behind, the persisted tip height T has a record stored at T and no record is
\* stored at any height above T.
C23_TipAndRecordsAtomic ==
    tipR # Absent =>
        /\ HasRecord(tipR)
        /\ \A h \in Heights : h > tipR => ~HasRecord(h)

\* initializeChain finds the chain behind a persisted tip above genesis and
\* rebuilds it.
Rebuilds == pc = "initchain" /\ tipR > 0 /\ chainDbTip.height < tipR

\* The rebuild added to the chain every stored height from R up to the persisted
\* tip, each as the entry read from the store and the last one as the tip, and
\* nothing below R.
ReplayedFrom(R) ==
    /\ \A h \in R..tipR : HasRecord(h) /\ chainDb'[h] = getEntry(h)
    /\ \A h \in 0..(R - 1) : chainDb'[h] = chainDb[h]
    /\ chainDbTip' = getEntry(tipR)

\* C24 (as stated): when the chain lags behind a persisted tip T > 0, the replay
\* starts at R = max(1, s) when T is at or below the historical point, at 1 when
\* the network has no last checkpoint, and right above the historical point
\* otherwise; every height from R through T is added to the chain in order.
C24_ReplayStartsAboveGenesis ==
    [][(Rebuilds /\ pc' = "open") =>
          ReplayedFrom(IF tipR <= getHistoricalPoint
                       THEN (IF startHeight > 1 THEN startHeight ELSE 1)
                       ELSE IF lastCheckpoint = 0 THEN 1
                       ELSE getHistoricalPoint + 1)]_vars

\* The rebuild added to the chain the stored heights from R upward, up to the
\* persisted tip or to the first height without a record, each as the entry read
\* from the store and the last one as the tip, and nothing else.
ReplayedUpFrom(R) ==
    LET run == {h \in R..tipR : \A x \in R..h : HasRecord(x)} IN
    /\ \A h \in run : chainDb'[h] = getEntry(h)
    /\ \A h \in Heights \ run : chainDb'[h] = chainDb[h]
    /\ \A h \in run : (h + 1 \notin run) => chainDbTip' = getEntry(h)
    /\ run = {} => chainDbTip' = chainDbTip

\* C24 (amended): when the chain lags behind a persisted tip T > 0, the replay
\* starts at R = s (genesis itself when there is no custom start) when T is at or
\* below the historical point, at 1 when the network has no last checkpoint, and
\* right above the historical point otherwise; the stored heights from R upward
\* are added to the chain in ascending order, up to T or to the first height that
\* has no record.
C24_ReplayStartsAtStartHeight ==
    [][(Rebuilds /\ pc' = "open") =>
          ReplayedUpFrom(IF tipR <= getHistoricalPoint THEN startHeight
                         ELSE IF lastCheckpoint = 0 THEN 1
                         ELSE getHistoricalPoint + 1)]_vars

\* The chain of a restarted node without a custom start was rebuilt up to a
\* persisted tip at or below the historical point: the replay began with genesis,
\* read from the store as an entry of chainwork 0.
C24_GenesisReplayed ==
    /\ pc = "open"
    /\ startMarker = Absent
    /\ tipR >= 2
    /\ tipR <= getHistoricalPoint
    /\ chainDbTip.height = tipR
    /\ chainDb[0] = MkEntry(Genesis.hash, ZeroHash, 0, 0)
    /\ \A h \in 1..tipR : chainDb[h] = getEntry(h)

\* C25 (as stated): when initializeChain returns on a persisted tip T > 0, the chain
\* holds the ancestors the validation of the next header (height T + 1) needs: the
\* max(retargetInterval, 11) entries below it, or all of them down to the store's
\* floor when fewer exist; and when T + 1 is a retarget height above the last
\* checkpoint, the entry at the previous retarget boundary T + 1 - retargetInterval.
C25_AncestorsForValidation ==
    [][(pc = "initchain" /\ pc' = "open" /\ tipR > 0 /\ ~crashed) =>
          LET window == IF retargetInterval > 11 THEN retargetInterval ELSE 11
              lowest == IF tipR + 1 - window > StoreFloor THEN tipR + 1 - window ELSE StoreFloor
          IN  /\ \A h \in lowest..tipR : chainDb'[h].kind = "entry"
              /\ (((tipR + 1) % retargetInterval = 0 /\ tipR + 1 > lastCheckpoint) =>
                      chainDb'[tipR + 1 - retargetInterval].kind = "entry")]_vars

\* C26: initializeChain only reads the header store: rebuilding the chain from the
\* stored entries emits no connect event to the indexer, and the records, the hash
\* index, the persisted tip and the start marker are the same after it as before.
C26_RebuildOnlyReads ==
    [][pc = "initchain" =>
          /\ events' = events
          /\ cur' = cur
          /\ records' = records
          /\ hashIdx' = hashIdx
          /\ tipR' = tipR
          /\ startMarker' = startMarker]_vars

\* A restarted node rebuilt its chain from the entries stored above the historical
\* point, two or more of them: the chain ends at the persisted tip, has no entry at
\* the historical point, and no event is waiting for the indexer.
C26_ChainRebuiltQuietly ==
    /\ pc = "open"
    /\ Idle
    /\ getHistoricalPoint > 0
    /\ tipR >= getHistoricalPoint + 2
    /\ chainDbTip.height = tipR
    /\ chainDb[getHistoricalPoint].kind = "none"
    /\ \A h \in (getHistoricalPoint + 1)..tipR : chainDb[h] = records[h]
    /\ lastReset = NoReset

\* C27: unindexBlock(entry) deletes exactly the record at entry.height, whichever
\* block that record is of: the records at all other heights and the start marker
\* are unchanged.  The deletion is keyed by the height alone, so called with the
\* entry of one block it removes the record another block has at that height.
C27_UnindexDeletesByHeight ==
    [][(ret' # ret /\ ret'.op = "unindexBlock") =>
          /\ records'[ret'.arg.value] = NoEntry
          /\ \A h \in Heights : h # ret'.arg.value => records'[h] = records[h]
          /\ startMarker' = startMarker]_vars

\* Under a start marker, unindexBlock was called with the entry of one block at a
\* height where the record of another block was stored: that record is gone, the
\* record at another height and the marker are still there.
C27_OtherBlockRemoved ==
    /\ ret.op = "unindexBlock"
    /\ deleted.kind # "none"
    /\ deleted.hash # ret.value
    /\ ~HasRecord(ret.arg.value)
    /\ startMarker # Absent
    /\ \E h \in Heights : h # ret.arg.value /\ HasRecord(h)

\* C28 setStartTip, initializeChain, getLocator and the event handlers exclude each
\* other through the indexer's lock: while the chain is rebuilt, and while the
\* start tip is written, no event is being handled and no locator is being
\* computed; a locator is computed only between two whole operations, never on
\* a half-rebuilt chain or between an event's record write and its tip write.
C28_OneHolderAtATime ==
    /\ pc = "rebuilding" => lock = "initializeChain" /\ loc # "computing" /\ cur = NoEvent
    /\ pc \in {"st_marker", "st_prev", "st_prev_tip", "st_entry", "st_entry_tip"}
         => lock = "setStartTip" /\ loc # "computing" /\ cur = NoEvent
    /\ cur # NoEvent => lock = "event" /\ loc # "computing"
    /\ loc = "computing" => lock = "getLocator"

\* C28 witness: the rebuild has added some of the stored entries and not yet all,
\* and a getLocator call is waiting for the lock.
C28_LocatorWaitsForRebuild ==
    /\ pc = "rebuilding"
    /\ loc = "waiting"
    /\ replayEntry.kind = "entry"
    /\ replayEntry.height <= tipR
    /\ chainDbTip.height + 1 = replayEntry.height
    /\ chainDbTip.height > startHeight

\* C29 Whoever holds the indexer's lock releases it, and the chain's lock is
\* released as well: no holder waits for a lock that is held further up.
C29_LocksReleased ==
    /\ [](lock # "free" => <>(lock = "free"))
    /\ [](ChainLocked => <>(~ChainLocked))

\* C29 witness: a locator is being computed under the indexer's lock while the
\* chain holds its own lock for a header whose event the indexer has yet to handle.
C29_LocatorWhileChainWaits ==
    /\ loc = "computing"
    /\ lock = "getLocator"
    /\ events # <<>>

RECURSIVE Pow2(_)
Pow2(n) == IF n <= 0 THEN 1 ELSE 2 * Pow2(n - 1)

\* The whole part of the logarithm of n to the base 2, 0 for n < 2.
RECURSIVE Log2(_)
Log2(n) == IF n < 2 THEN 0 ELSE 1 + Log2(n \div 2)

\* The distance the walk means to go down from its i-th hash when the first
\* `single` distances are 1 and each later one is twice the one before.
NominalStep(i, single) == IF i <= single THEN 1 ELSE Pow2(i - single)

\* The walk so far: it begins at the tip, every distance is the nominal one or,
\* where that would pass the floor, what is left down to the floor; a walk that
\* has returned ends on the floor.
WalkShape(single) ==
    LET hs == walk.hashes
        n == Len(hs)
    IN  walk.tip # Absent =>
        /\ hs[1] = walk.tip
        /\ walk.height = hs[n]
        /\ \A i \in 1..(n - 1) :
             /\ hs[i] > walk.end
             /\ hs[i] - hs[i + 1] =
                  (IF NominalStep(i, single) < hs[i] - walk.end
                   THEN NominalStep(i, single) ELSE hs[i] - walk.end)
        /\ ~walk.running => hs[n] = walk.end

\* C30 as stated: the distances are 1 until 10 hashes are collected and double
\* from the turn on that finds 10 hashes; the walk ends on the floor, it
\* terminates, and the hashes are no more than a constant plus the logarithm of
\* (tip - floor).
C30_DoublesOnceTenCollected ==
    /\ [](WalkShape(10))
    /\ [](Len(walk.hashes) <= 12 + Log2(walk.tip - walk.end))
    /\ (walk.running ~> ~walk.running)

\* C30 The distances are 1 as long as no more than 10 hashes are collected: the
\* first 11 distances are 1 and each later one doubles; the last one is cut so
\* that the walk ends exactly on the floor; the walk terminates for every tip at
\* or above the floor, and the hashes are at most 12 plus the whole part of the
\* logarithm to the base 2 of (tip - floor).
C30_DoublesAboveTenCollected ==
    /\ [](WalkShape(11))
    /\ [](Len(walk.hashes) <= 12 + Log2(walk.tip - walk.end))
    /\ (walk.running ~> ~walk.running)

\* C30 witness: a walk has returned whose step doubled more than once and whose
\* last distance was cut to end on the floor.
C30_LongWalkEndsOnFloor ==
    /\ walk.tip # Absent
    /\ ~walk.running
    /\ Len(walk.hashes) >= 15
    /\ walk.hashes[Len(walk.hashes)] = walk.end
    /\ walk.hashes[Len(walk.hashes) - 1] - walk.end < NominalStep(Len(walk.hashes) - 1, 11)

\* C31 as stated: getLocator(start) with a start hash the chain does not know
\* returns a locator.
C31_UnknownStartReturnsLocator ==
    [][(ret' # ret /\ ret'.op = "getLocator" /\ ~IsKnown(ret'.arg.value))
         => ret'.outcome = "returned"]_vars

C33_OneSyncSends ==
    /\ [](Cardinality({c \in 1..MaxSyncCalls : sync[c] = "locating"}) <= 1)
    /\ [](Cardinality({c \in 1..MaxSyncCalls : sync[c] = "sent"}) <= 1)
    /\ [][\A c \in 1..MaxSyncCalls :
            (sync[c] = "idle" /\ sync'[c] # "idle" /\ peer.syncing)
                => (sync'[c] = "refused" /\ peer' = peer)]_vars

\* C33 witness: a call was turned away while another was computing its locator,
\* and that one has sent it.
C33_SecondCallRefused ==
    /\ \E c \in 1..MaxSyncCalls : sync[c] = "sent"
    /\ \E c \in 1..MaxSyncCalls : sync[c] = "refused"
    /\ peer.sent = 1

\* C34 When getLocator throws inside sendSync the peer is set back to not syncing
\* with blockTime -1, one 'error' is emitted and no locator is sent; and a peer
\* that is syncing has been sent a locator or has a sendSync computing one.
C34_FailedSyncRestoresPeer ==
    /\ [][\A c \in 1..MaxSyncCalls :
            (sync[c] = "locating" /\ sync'[c] = "failed")
                => /\ ~peer'.syncing
                   /\ peer'.blockTime = -1
                   /\ peer'.sent = peer.sent
                   /\ emitted' = emitted + 1]_vars
    /\ [](peer.syncing
            => (peer.sent > 0 \/ \E c \in 1..MaxSyncCalls : sync[c] = "locating"))

\* C34 witness: a sendSync has failed, its error was emitted and the peer is
\* not syncing and was sent nothing.
C34_SyncFailed ==
    /\ \E c \in 1..MaxSyncCalls : sync[c] = "failed"
    /\ emitted > 0
    /\ ~peer.syncing
    /\ peer.sent = 0

\* C35 as stated: when _setStartTip rejects the start tip for an entry at height 0
\* or for a second entry that does not follow the first, the start marker, the
\* records, the tip and the chain's db are as they were before.
C35_RejectedTipLeavesNoTrace ==
    [][(pc = "constructed" /\ pc' = "failed"
        /\ lastError' \in {GenesisStartError, PrevMismatchError})
         => /\ startMarker' = startMarker
            /\ records' = records
            /\ tipR' = tipR
            /\ chainDb' = chainDb
            /\ chainDbTip' = chainDbTip]_vars

\* C36 as stated: whatever was done to the network's checkpoint since a record
\* was written, getHeader reads the record as the variant it was written as.
C36_ReadAsWritten ==
    \A h \in Heights : HasRecord(h) => getHeader(h).kind = records[h].kind

\* C37 as stated: once open has succeeded, the indexer's startHeight is the stored
\* start marker, or 0 when no marker is stored.
C37_FloorIsStartMarker ==
    pc = "open" => startHeight = (IF startMarker = Absent THEN 0 ELSE startMarker)

-----------------------------------------------------------------------------
(* HeaderNode.open and HeaderNode.close called in every state of the node    *)

\* assert(!this.opened, 'HeaderNode is already open.')
AlreadyOpenError == [kind |-> "already_open", retarget |-> FALSE, nums |-> {}]

\* assert(this.opened, 'HeaderNode is not open.')
NotOpenError == [kind |-> "not_open", retarget |-> FALSE, nums |-> {}]

\* Everything the two assertions leave alone.
lifeFrame == <<netVars, walkVars, callVars, forkAt, storeVars, idxVars, chainVars, events, pc, cur,
               crashed, options, lastFork, lifeVars, resetVars, histVars, poolVars, lockVars, syncVars,
               handleVars>>

\* node.open() on a node whose opened flag is set: the assertion throws.
OpenAgain ==
    /\ pc \in {"failed", "open"}
    /\ opened
    /\ lastError' = AlreadyOpenError
    /\ UNCHANGED lifeFrame

\* node.close() on a node whose opened flag is not set: the assertion throws.
CloseNotOpen ==
    /\ pc = "constructed"
    /\ ~opened
    /\ lastError' = NotOpenError
    /\ UNCHANGED lifeFrame

\* node.close() after open() threw in headerindex.open(): opened is still set, the
\* assertion passes and the components are closed from http on; a component that
\* never opened may throw and end close() there.
CloseFailedOpen ==
    /\ pc = "failed"
    /\ opened
    /\ opened' = FALSE
    /\ dbLoaded' = FALSE
    /\ \E n \in 1..Len(CloseOrder) : closeOrder' = SubSeq(CloseOrder, 1, n)
    /\ UNCHANGED <<netVars, walkVars, callVars, forkAt, storeVars, idxVars, chainVars, events, pc, cur,
                   lastError, crashed, options, lastFork, openOrder, resetVars, histVars, poolVars,
                   lockVars, syncVars>>

NextLife ==
    \/ \E opts \in TipConfigs : Construct(opts)
    \/ OpenSetStartTip
    \/ WriteStartMarker
    \/ StartIndexPrev
    \/ StartSetTipPrev
    \/ StartIndexEntry
    \/ StartSetTipEntry
    \/ SuperOpen
    \/ InitializeChain
    \/ \E h \in 1..MaxLockHeight : ReceiveHeader(h, 0)
    \/ HandleIndex
    \/ HandleSetTip
    \/ OpenAgain
    \/ CloseNotOpen
    \/ CloseFailedOpen
    \/ Close
    \/ Exit

SpecLife == Init /\ [][NextLife]_vars

\* C38 as stated: open is accepted only on a node that is not open and close only on
\* one that is; after an open that failed part-way the node is not open, and close
\* never runs against a component that open did not open.
C38_OpenCloseGuarded ==
    /\ [][(~opened /\ opened' => pc = "constructed")
          /\ (closeOrder' # closeOrder /\ closeOrder' # <<>> => opened)]_vars
    /\ [](pc = "failed" => ~opened)
    /\ [](\A i \in 1..Len(closeOrder) : \E j \in 1..Len(openOrder) : closeOrder[i] = openOrder[j])

-----------------------------------------------------------------------------
(* getStartTip called on an indexer, opened or not, while headers arrive      *)

\* The database refuses a read or a write through a closed handle.
DbClosedError == [kind |-> "db_closed", retarget |-> FALSE, nums |-> {}]

\* indexer.getStartTip(): opens the db if it is not loaded, reads the marker and the
\* two entries, and in its finally block closes the db whenever it is loaded.
CallGetStartTip ==
    /\ pc \in {"constructed", "open"}
    /\ cur = NoEvent
    /\ LET g == getStartTip IN
       ret' = IF g.status = "throw"
              THEN Threw("getStartTip", NoArg, StartTipMissingError)
              ELSE Returned("getStartTip", NoArg, IF g.status = "ok" THEN g.tip[2].height ELSE Absent)
    /\ dbLoaded' = FALSE
    /\ UNCHANGED <<netVars, walkVars, syncVars, opened, histVars, poolVars, lockVars, lifeVars, resetVars,
                   forkAt, storeVars, idxVars, chainVars, events, pc, cur, lastError, crashed, options,
                   lastFork>>

\* _addBlock / _removeBlock when the db has been closed under the open indexer: the
\* write is refused and the handler throws.
HandleIndexDbClosed ==
    /\ pc = "open"
    /\ ~dbLoaded
    /\ lock = "free"
    /\ cur = NoEvent
    /\ events # <<>>
    /\ events' = Tail(events)
    /\ OpenFails(DbClosedError)
    /\ UNCHANGED <<netVars, walkVars, syncVars, handleVars, callVars, histVars, poolVars, lockVars, lifeVars,
                   resetVars, forkAt, storeVars, idxVars, chainVars, cur, crashed, options, lastFork>>

HandleConfigs == {NoConfig, [startHeight |-> 0, startTip |-> ConfigTip(2)]}

NextHandle ==
    \/ \E opts \in HandleConfigs : Construct(opts)
    \/ OpenSetStartTip
    \/ WriteStartMarker
    \/ StartIndexPrev
    \/ StartSetTipPrev
    \/ StartIndexEntry
    \/ StartSetTipEntry
    \/ SuperOpen
    \/ InitializeChain
    \/ \E h \in 1..MaxLockHeight : ReceiveHeader(h, 0)
    \/ HandleIndex
    \/ HandleSetTip
    \/ HandleIndexDbClosed
    \/ CallGetStartTip
    \/ Close
    \/ Exit

SpecHandle == Init /\ [][NextHandle]_vars

\* C39 as stated: getStartTip leaves the indexer's database handle as it found it,
\* open if it was open and closed if it was closed.
C39_GetStartTipKeepsHandle ==
    [][(ret' # ret /\ ret'.op = "getStartTip") => dbLoaded' = dbLoaded]_vars
=============================================================================
